---- MODULE Spec2Model ----
(***************************************************************************)
(* Model of k8s-rules-viewer: the selector resolver of renderTUI, the rule *)
(* evaluator, the compliance report and the terminal probe of              *)
(* internal/tui/rules.go with its Validate* functions, the port marks of   *)
(* internal/kubernetes/service.go, both variants of the KrakenD reference  *)
(* scanner of internal/tui/krakend.go, and the two goroutines of main.     *)
(*                                                                         *)
(* Text the code inspects character by character (port names, the label    *)
(* argument, selectors, config map keys, url patterns and hosts) is a      *)
(* sequence of one-character strings; text the code only compares for      *)
(* equality or copies (label keys and values, account names, rule names)   *)
(* is a TLA+ string.                                                       *)
(***************************************************************************)
EXTENDS Integers, Sequences, FiniteSets, TLC

VARIABLES
    pc,             \* position of the running function
    appLabel,       \* the -label argument (appLabel)
    debugLog,       \* TRUE iff init() opened the log file (debugLog != nil)
    calls,          \* instrumentation: every collaborator call, in order
    labelSelector,  \* renderTUI: labelSelector
    podNames,       \* renderTUI: podNames
    podInfoList,    \* renderTUI: podInfoList
    podInfo,        \* renderTUI: the formatted pod panel
    results,        \* EvaluateRules: results
    service,        \* EvaluateRules: service (Nil or the chosen service)
    selIdx,         \* EvaluateRules: index of the range over labelSelectors
    vIn,            \* arguments of the function under test
    vOut,           \* its return value
    krakendConfig,  \* KrakenDBackendServiceCheck: krakendConfig
    namespace,      \* GetRulesCompliance: namespace
    termEnv,        \* the terminal environment GetStatusSymbols reads
    stdout,         \* what the process has written to standard output
    rendered,       \* GetRulesCompliance: the text returned
    vPrev,          \* the return value of the previous call with the same arguments
    updates,        \* main: the functions queued on the application (app.updates)
    events          \* main: number of events the UI loop has handled

vars == <<pc, appLabel, debugLog, calls, labelSelector, podNames, podInfoList,
          podInfo, results, service, selIdx, vIn, vOut, krakendConfig, namespace,
          termEnv, stdout, rendered, vPrev, updates, events>>

----------------------------------------------------------------------------
(* Bounds *)

MaxPods == 2
MaxDeployments == 2
MaxServices == 2
MaxPorts == 3

----------------------------------------------------------------------------
(* Text *)

s_app_eq == <<"a","p","p","=">>
s_k8s_name_eq == <<"a","p","p",".","k","u","b","e","r","n","e","t","e","s",
                   ".","i","o","/","n","a","m","e","=">>
s_argocd_eq == <<"a","r","g","o","c","d",".","a","r","g","o","p","r","o","j",
                 ".","i","o","/","i","n","s","t","a","n","c","e","=">>
s_foo == <<"f","o","o">>
s_empty == <<>>

UpperLetters == <<"A","B","C","D","E","F","G","H","I","J","K","L","M",
                  "N","O","P","Q","R","S","T","U","V","W","X","Y","Z">>
LowerLetters == <<"a","b","c","d","e","f","g","h","i","j","k","l","m",
                  "n","o","p","q","r","s","t","u","v","w","x","y","z">>

ToLowerChar(c) ==
    IF \E i \in 1..26 : UpperLetters[i] = c
    THEN LowerLetters[CHOOSE i \in 1..26 : UpperLetters[i] = c]
    ELSE c

ToLower(s) == [i \in 1..Len(s) |-> ToLowerChar(s[i])]

HasPrefix(s, prefix) ==
    /\ Len(s) >= Len(prefix)
    /\ SubSeq(s, 1, Len(prefix)) = prefix

TrimPrefix(s, prefix) ==
    IF HasPrefix(s, prefix) THEN SubSeq(s, Len(prefix) + 1, Len(s)) ELSE s

RECURSIVE TrimLeft(_, _)
TrimLeft(s, c) ==
    IF Len(s) > 0 /\ s[1] = c THEN TrimLeft(Tail(s), c) ELSE s

RECURSIVE TrimRight(_, _)
TrimRight(s, c) ==
    IF Len(s) > 0 /\ s[Len(s)] = c THEN TrimRight(SubSeq(s, 1, Len(s) - 1), c) ELSE s

Trim(s, c) == TrimRight(TrimLeft(s, c), c)

\* strings.Split(s, sep) for a one-character sep: the pieces between the
\* separators, always at least one piece.
RECURSIVE SplitFrom(_, _, _, _)
SplitFrom(s, sep, i, cur) ==
    IF i > Len(s) THEN <<cur>>
    ELSE IF s[i] = sep THEN <<cur>> \o SplitFrom(s, sep, i + 1, <<>>)
    ELSE SplitFrom(s, sep, i + 1, Append(cur, s[i]))

Split(s, sep) == SplitFrom(s, sep, 1, <<>>)

\* strings.Contains(s, substr)
Contains(s, substr) ==
    \E i \in 0..(Len(s) - Len(substr)) : SubSeq(s, i + 1, i + Len(substr)) = substr

\* fmt.Sprintf("<prefix>%s", arg)
Sprintf(prefix, arg) == prefix \o arg

----------------------------------------------------------------------------
(* Resource records and the collaborator *)

EmptyMap == [k \in {} |-> ""]
Has(m, k) == k \in DOMAIN m

Nil == [nil |-> TRUE]

Pod(name, sa, labels) == [Name |-> name, ServiceAccountName |-> sa, Labels |-> labels]

PodUniverse == <<
    Pod("pod-a", "foo", "app" :> "foo"),
    Pod("pod-b", "foo", "app" :> "Foo"),
    Pod("pod-c", "Foo", "app" :> "foo"),
    Pod("pod-d", "",    "app" :> ""),
    Pod("pod-e", "foo", "team" :> "foo") >>

\* The pods the resolver's collaborator can return.
ResolverPodUniverse == SubSeq(PodUniverse, 1, 2)

RECURSIVE Pick(_, _, _)
Pick(seq, I, i) ==
    IF i > Len(seq) THEN <<>>
    ELSE IF i \in I THEN <<seq[i]>> \o Pick(seq, I, i + 1)
    ELSE Pick(seq, I, i + 1)

\* The lists a List call can return: at most max distinct items of the
\* universe, in the order of the universe (the API lists by name).
Lists(universe, max) ==
    { Pick(universe, I, 1) :
        I \in { J \in SUBSET (1..Len(universe)) : Cardinality(J) <= max } }

\* The result of one List call: (list, err).
Outcomes(universe, max) ==
    { [err |-> FALSE, Items |-> l] : l \in Lists(universe, max) }
      \cup { [err |-> TRUE, Items |-> <<>>] }

Call(fn, selector, out) == [fn |-> fn, selector |-> selector, out |-> out]

----------------------------------------------------------------------------
(* internal/kubernetes/pod.go *)

ErrorRetrievingPods == [text |-> "Error retrieving pods"]
NoPodsFoundText == [text |-> "No pods found with the specified label"]
PodInfoText(pod) == [text |-> "Name/Namespace/Status/Node/IP", Name |-> pod.Name]

GetPodInfoByLabel(out) ==
    IF out.err THEN <<ErrorRetrievingPods>>
    ELSE IF Len(out.Items) = 0 THEN <<NoPodsFoundText>>
    ELSE [i \in 1..Len(out.Items) |-> PodInfoText(out.Items[i])]

GetPodNamesByLabel_ErrorAsEntry(out) ==
    IF out.err THEN <<"Error retrieving pods">>
    ELSE [i \in 1..Len(out.Items) |-> out.Items[i].Name]

GetPodNamesByLabel(out) ==
    IF out.err THEN <<>>
    ELSE [i \in 1..Len(out.Items) |-> out.Items[i].Name]

----------------------------------------------------------------------------
(* renderTUI: the selector resolver *)

Candidates_Swapped(id) == << Sprintf(s_k8s_name_eq, id), Sprintf(s_app_eq, id), id >>

\* The three selectors renderTUI tries, in the order it tries them.
Candidates(id) == << Sprintf(s_app_eq, id), Sprintf(s_k8s_name_eq, id), id >>

\* len(podNames) == 0: the guard of both fallback blocks.
NoPodsFound_Always(names) == TRUE

NoPodsFound(names) == Len(names) = 0

\* if len(podNames) > 0 { labelSelector = <candidate> }
Adopt_Always(current, candidate, names) == candidate

Adopt(current, candidate, names) ==
    IF Len(names) > 0 THEN candidate ELSE current

ResolverPodOutcomes == Outcomes(ResolverPodUniverse, MaxPods)

ResolverFrame == UNCHANGED <<appLabel, debugLog, results, service, selIdx, vIn, vOut,
                             krakendConfig, namespace, termEnv, stdout, rendered,
                             vPrev, updates, events>>

\* One GetPodNamesByLabel call.
NamesCall(selector, next) ==
    \E out \in ResolverPodOutcomes :
        /\ podNames' = GetPodNamesByLabel(out)
        /\ calls' = Append(calls, Call("GetPodNamesByLabel", selector, out))
        /\ pc' = next
        /\ UNCHANGED <<labelSelector, podInfoList, podInfo>>
        /\ ResolverFrame

\* One GetPodInfoByLabel call.
InfoCall(selector, next) ==
    \E out \in ResolverPodOutcomes :
        /\ podInfoList' = GetPodInfoByLabel(out)
        /\ calls' = Append(calls, Call("GetPodInfoByLabel", selector, out))
        /\ pc' = next
        /\ UNCHANGED <<labelSelector, podNames, podInfo>>
        /\ ResolverFrame

PrimaryNames ==
    /\ pc = "L98"
    /\ NamesCall(Candidates(appLabel)[1], "L99")

PrimaryInfo ==
    /\ pc = "L99"
    /\ InfoCall(Candidates(appLabel)[1], "L102")

AltGuard ==
    /\ pc = "L102"
    /\ pc' = IF NoPodsFound(podNames) THEN "L103" ELSE "L111"
    /\ UNCHANGED <<calls, labelSelector, podNames, podInfoList, podInfo>>
    /\ ResolverFrame

AltNames ==
    /\ pc = "L103"
    /\ NamesCall(Candidates(appLabel)[2], "L104")

AltInfo ==
    /\ pc = "L104"
    /\ InfoCall(Candidates(appLabel)[2], "L105")

AltAdopt ==
    /\ pc = "L105"
    /\ labelSelector' = Adopt(labelSelector, Candidates(appLabel)[2], podNames)
    /\ pc' = "L111"
    /\ UNCHANGED <<calls, podNames, podInfoList, podInfo>>
    /\ ResolverFrame

BareGuard ==
    /\ pc = "L111"
    /\ pc' = IF NoPodsFound(podNames) THEN "L113" ELSE "L124"
    /\ UNCHANGED <<calls, labelSelector, podNames, podInfoList, podInfo>>
    /\ ResolverFrame

BareNames ==
    /\ pc = "L113"
    /\ NamesCall(Candidates(appLabel)[3], "L114")

BareInfo ==
    /\ pc = "L114"
    /\ InfoCall(Candidates(appLabel)[3], "L115")

BareAdopt ==
    /\ pc = "L115"
    /\ labelSelector' = Adopt(labelSelector, Candidates(appLabel)[3], podNames)
    /\ pc' = "L124"
    /\ UNCHANGED <<calls, podNames, podInfoList, podInfo>>
    /\ ResolverFrame

\* The pod panel: a header naming labelSelector, then one numbered entry per
\* element of podInfoList.
FormatPodInfo ==
    /\ pc = "L124"
    /\ podInfo' = [label |-> labelSelector,
                   entries |-> [i \in 1..Len(podInfoList) |-> <<i, podInfoList[i]>>]]
    /\ pc' = "resolved"
    /\ UNCHANGED <<calls, labelSelector, podNames, podInfoList>>
    /\ ResolverFrame

NoPanel == [label |-> <<>>, entries |-> <<>>]

InitResolve ==
    /\ pc = "L98"
    /\ appLabel \in { s_foo, Sprintf(s_app_eq, s_foo) }
    /\ debugLog = FALSE
    /\ calls = <<>>
    /\ labelSelector = Candidates(appLabel)[1]
    /\ podNames = <<>>
    /\ podInfoList = <<>>
    /\ podInfo = NoPanel
    /\ results = <<>>
    /\ service = Nil
    /\ selIdx = 1
    /\ vIn = Nil
    /\ vOut = FALSE
    /\ krakendConfig = <<>>
    /\ namespace = "default"
    /\ termEnv = Nil
    /\ stdout = <<>>
    /\ rendered = <<>>
    /\ vPrev = Nil
    /\ updates = <<>>
    /\ events = 0

NextResolve ==
    \/ PrimaryNames
    \/ PrimaryInfo
    \/ AltGuard
    \/ AltNames
    \/ AltInfo
    \/ AltAdopt
    \/ BareGuard
    \/ BareNames
    \/ BareInfo
    \/ BareAdopt
    \/ FormatPodInfo

SpecResolve == InitResolve /\ [][NextResolve]_vars

----------------------------------------------------------------------------
(* Properties of the selector resolver *)

\* The candidate selectors as the specification lists them:
\* app=<id>, app.kubernetes.io/name=<id>, <id>.
SpecCandidate(i, id) ==
    CASE i = 1 -> <<"a","p","p","=">> \o id
      [] i = 2 -> <<"a","p","p",".","k","u","b","e","r","n","e","t","e","s",
                    ".","i","o","/","n","a","m","e","=">> \o id
      [] i = 3 -> id

IsNamesCall(c) == c.fn = "GetPodNamesByLabel"
IsInfoCall(c) == c.fn = "GetPodInfoByLabel"

\* The lookups that decide the resolution, in the order they were issued.
NamesCalls == SelectSeq(calls, IsNamesCall)

\* The collaborator answered the call with at least one pod.
Yielded(c) == ~c.out.err /\ Len(c.out.Items) > 0

NamesOf(items) == [i \in 1..Len(items) |-> items[i].Name]

AllThreeEmpty ==
    /\ pc = "resolved"
    /\ Len(NamesCalls) = 3
    /\ \A i \in 1..3 : ~Yielded(NamesCalls[i])

C2_ShortCircuit ==
    /\ \A a \in 1..Len(calls) : \A b \in 1..Len(calls) :
           (a < b /\ IsNamesCall(calls[a]) /\ Yielded(calls[a]))
               => calls[b].selector = calls[a].selector
    /\ Len(NamesCalls) <= 3
    /\ \A i \in 1..Len(NamesCalls) :
           NamesCalls[i].selector = SpecCandidate(i, appLabel)
    /\ \A b \in 1..Len(calls) :
           IsInfoCall(calls[b]) =>
               /\ b > 1
               /\ IsNamesCall(calls[b - 1])
               /\ calls[b - 1].selector = calls[b].selector

C2_Witness ==
    /\ pc = "resolved"
    /\ Yielded(calls[1])
    /\ Len(calls) = 2
    /\ calls[2].selector = SpecCandidate(1, appLabel)

\* The candidates whose deciding lookup yielded pods.
YieldingCandidates == { i \in 1..Len(NamesCalls) : Yielded(NamesCalls[i]) }

LowestYielding == CHOOSE i \in YieldingCandidates : \A j \in YieldingCandidates : i <= j

\* C3: when some candidate's lookup is non-empty, the adopted selector is the
\* lowest-priority-index candidate whose lookup is non-empty, the pod names
\* are the ones returned for it, and the pod records shown are what the
\* pod-record call for that same selector returned.
C3_LowestNonEmptyAdopted ==
    (pc = "resolved" /\ YieldingCandidates # {}) =>
        /\ labelSelector = SpecCandidate(LowestYielding, appLabel)
        /\ podInfo.label = labelSelector
        /\ podNames = NamesOf(NamesCalls[LowestYielding].out.Items)
        /\ \A i \in 1..(LowestYielding - 1) : ~Yielded(NamesCalls[i])
        /\ IsInfoCall(calls[Len(calls)])
        /\ calls[Len(calls)].selector = labelSelector
        /\ podInfoList = GetPodInfoByLabel(calls[Len(calls)].out)
        /\ Len(podInfo.entries) = Len(podInfoList)

C3_Witness ==
    /\ pc = "resolved"
    /\ YieldingCandidates # {}
    /\ LowestYielding = 2
    /\ ~NamesCalls[1].out.err
    /\ labelSelector = SpecCandidate(2, appLabel)
    /\ Len(podNames) = 2

\* C4: a failed pod-listing call counts as zero matches: the resolution goes
\* on to the next candidate, and a later candidate that has pods is adopted.
C4_FailureDegradesToEmpty ==
    /\ (calls # <<>> /\ IsNamesCall(calls[Len(calls)]) /\ calls[Len(calls)].out.err)
           => podNames = <<>>
    /\ pc = "resolved" =>
           \A i \in 1..Len(NamesCalls) :
               NamesCalls[i].out.err =>
                   /\ i < 3 => Len(NamesCalls) >= i + 1
                   /\ \A j \in (i + 1)..Len(NamesCalls) :
                          Yielded(NamesCalls[j]) =>
                              /\ labelSelector = SpecCandidate(j, appLabel)
                              /\ podNames = NamesOf(NamesCalls[j].out.Items)

C4_Witness ==
    /\ pc = "resolved"
    /\ Len(NamesCalls) = 3
    /\ NamesCalls[1].out.err
    /\ NamesCalls[2].out.err
    /\ Yielded(NamesCalls[3])
    /\ labelSelector = SpecCandidate(3, appLabel)

----------------------------------------------------------------------------
(* internal/tui/rules.go: resource records *)

Deployment(name, labels) == [Name |-> name, Labels |-> labels]

DeploymentUniverse == <<
    Deployment("dep-a", ("app" :> "") @@ ("version" :> "")),
    Deployment("dep-b", "app" :> "foo"),
    Deployment("dep-c", "version" :> "v1"),
    Deployment("dep-d", EmptyMap),
    Deployment("dep-e", "team" :> "foo") >>

\* A label map that may be the nil map: service.Labels == nil is isNil.
NilLabels == [isNil |-> TRUE, kv |-> EmptyMap]
Labels(kv) == [isNil |-> FALSE, kv |-> kv]

Port(name) == [Name |-> name]

Service(name, ports, labels) == [Name |-> name, Ports |-> ports, Labels |-> labels]

n_http_api == <<"h","t","t","p","-","a","p","i">>
n_grpc == <<"g","r","p","c">>
n_tcp_db == <<"t","c","p","-","d","b">>
n_httpx_api == <<"h","t","t","p","x","-","a","p","i">>
n_HTTP_api == <<"H","T","T","P","-","a","p","i">>
n_dash_http == <<"-","h","t","t","p">>
n_http2 == <<"h","t","t","p","2">>

PortNames == { n_http_api, n_grpc, s_empty, n_tcp_db, n_httpx_api, n_HTTP_api,
               n_dash_http, n_http2 }

ServiceUniverse == <<
    Service("svc-a", <<Port(n_http_api), Port(n_grpc)>>, Labels("scrape_tls" :> "true")),
    Service("svc-b", <<Port(n_http_api), Port(s_empty)>>, Labels("scrape_tls" :> "True")),
    Service("svc-c", <<Port(n_tcp_db)>>, NilLabels) >>

----------------------------------------------------------------------------
(* internal/tui/rules.go: the Validate* functions *)

ValidatePodServiceAccount_AllowEmpty(pod, label) ==
    IF pod = Nil THEN FALSE
    ELSE IF Has(pod.Labels, "app") THEN pod.ServiceAccountName = pod.Labels["app"]
    ELSE FALSE

ValidatePodServiceAccount(pod, label) ==
    IF pod = Nil \/ pod.ServiceAccountName = "" THEN FALSE
    ELSE IF Has(pod.Labels, "app") THEN pod.ServiceAccountName = pod.Labels["app"]
    ELSE FALSE

requiredLabels == <<"app", "version">>

RECURSIVE RequiredLabelsLoop(_, _)
RequiredLabelsLoop(labels, i) ==
    IF i > Len(requiredLabels) THEN TRUE
    ELSE IF ~Has(labels, requiredLabels[i]) THEN FALSE
    ELSE RequiredLabelsLoop(labels, i + 1)

ValidateDeploymentLabels_AnyRequired(deployment) ==
    IF deployment = Nil \/ Cardinality(DOMAIN deployment.Labels) = 0 THEN FALSE
    ELSE \E i \in 1..Len(requiredLabels) : Has(deployment.Labels, requiredLabels[i])

ValidateDeploymentLabels(deployment) ==
    IF deployment = Nil \/ Cardinality(DOMAIN deployment.Labels) = 0 THEN FALSE
    ELSE RequiredLabelsLoop(deployment.Labels, 1)

validProtocols == <<
    <<"h","t","t","p">>,
    <<"h","t","t","p","2">>,
    <<"h","t","t","p","s">>,
    <<"t","c","p">>,
    <<"t","l","s">>,
    <<"g","r","p","c">>,
    <<"m","o","n","g","o">>,
    <<"r","e","d","i","s">> >>

\* The range over service.Spec.Ports, from port i on.
RECURSIVE PortsLoop(_, _)
PortsLoop(ports, i) ==
    IF i > Len(ports) THEN TRUE
    ELSE IF ports[i].Name = <<>> THEN FALSE
    ELSE LET portNameParts == Split(ToLower(ports[i].Name), "-")
             validProtocolFound ==
                 \E k \in 1..Len(validProtocols) : portNameParts[1] = validProtocols[k]
         IN  IF Len(portNameParts) = 0 THEN FALSE
             ELSE IF ~validProtocolFound THEN FALSE
             ELSE PortsLoop(ports, i + 1)

\* The two debugLog.Printf calls read service.Name before the nil check.
ValidateServicePortNamingPanics(svc, log) == log /\ svc = Nil

ValidateServicePortNaming_AnyPort(svc, log) ==
    IF svc = Nil \/ Len(svc.Ports) = 0 THEN FALSE
    ELSE \E i \in 1..Len(svc.Ports) : PortsLoop(<<svc.Ports[i]>>, 1)

ValidateServicePortNaming(svc, log) ==
    IF svc = Nil \/ Len(svc.Ports) = 0 THEN FALSE
    ELSE PortsLoop(svc.Ports, 1)

ValidateServiceHasScrapeTLS_KeyOnly(svc) ==
    IF svc = Nil \/ svc.Labels.isNil THEN FALSE
    ELSE Has(svc.Labels.kv, "scrape_tls")

ValidateServiceHasScrapeTLS(svc) ==
    IF svc = Nil \/ svc.Labels.isNil THEN FALSE
    ELSE Has(svc.Labels.kv, "scrape_tls") /\ svc.Labels.kv["scrape_tls"] = "true"

----------------------------------------------------------------------------
(* internal/tui/rules.go: EvaluateRules *)

RuleResult(name, description, passed) ==
    [Name |-> name, Description |-> description, Passed |-> passed]

\* Rule 1, lines 178-186, on the result of the pod List call.
podServiceAccountValid(out, label) ==
    /\ ~out.err
    /\ Len(out.Items) > 0
    /\ \E i \in 1..Len(out.Items) : ValidatePodServiceAccount(out.Items[i], label)

deploymentLabelsValid_FailOpen(out) ==
    \/ out.err
    \/ /\ Len(out.Items) > 0
       /\ \E i \in 1..Len(out.Items) : ValidateDeploymentLabels(out.Items[i])

\* Rule 2, lines 200-208, on the result of the deployment List call.
deploymentLabelsValid(out) ==
    /\ ~out.err
    /\ Len(out.Items) > 0
    /\ \E i \in 1..Len(out.Items) : ValidateDeploymentLabels(out.Items[i])

cleanLabel_PrefixOnly(label) == TrimPrefix(label, s_app_eq)

\* Line 219: strip a leading app=, then the quote characters at both ends.
cleanLabel(label) == Trim(TrimPrefix(label, s_app_eq), "\"")

labelSelectors_Swapped(label) ==
    << Sprintf(s_argocd_eq, cleanLabel(label)), Sprintf(s_app_eq, cleanLabel(label)) >>

\* Lines 222-225: the selectors tried, in order.
labelSelectors(label) ==
    << Sprintf(s_app_eq, cleanLabel(label)), Sprintf(s_argocd_eq, cleanLabel(label)) >>

ServiceRuleResults_OnlyWhenFound(svc, label, log) ==
    IF svc = Nil THEN <<>>
    ELSE << RuleResult("Service Port Naming",
                       <<"Service (", label, ") ports follow Istio naming conventions">>,
                       ValidateServicePortNaming(svc, log)),
            RuleResult("Service scrape_tls Label",
                       <<"Service (", label, ") has label scrape_tls = true">>,
                       ValidateServiceHasScrapeTLS(svc)) >>

\* Lines 250-266: the two service verdicts and the results appended for them.
ServiceRuleResults(svc, label, log) ==
    LET servicePortsValid == svc # Nil /\ ValidateServicePortNaming(svc, log)
        serviceScrapeTLSValid == svc # Nil /\ ValidateServiceHasScrapeTLS(svc)
    IN  << RuleResult("Service Port Naming",
                      <<"Service (", label, ") ports follow Istio naming conventions">>,
                      servicePortsValid),
           RuleResult("Service scrape_tls Label",
                      <<"Service (", label, ") has label scrape_tls = true">>,
                      serviceScrapeTLSValid) >>

RuleLabels == { s_empty, s_foo, Sprintf(s_app_eq, s_foo),
                Sprintf(s_app_eq, <<"\"">> \o s_foo \o <<"\"">>) }

\* Lines 35-76: the glyph pair for the terminal environment env.
goodTerms == <<
    <<"i","T","e","r","m",".","a","p","p">>,
    <<"A","p","p","l","e","_","T","e","r","m","i","n","a","l">>,
    <<"v","s","c","o","d","e">>,
    <<"h","y","p","e","r">>,
    <<"a","l","a","c","r","i","t","t","y">>,
    <<"k","i","t","t","y">>,
    <<"t","e","r","m","i","n","a","t","o","r">> >>

GetStatusSymbols_CaseSensitive(env) ==
    IF \/ \E i \in 1..Len(goodTerms) : Contains(env.TERM_PROGRAM, goodTerms[i])
       \/ Contains(env.COLORTERM, <<"t","r","u","e","c","o","l","o","r">>)
       \/ Contains(env.COLORTERM, <<"2","4","b","i","t">>)
       \/ Contains(env.TERM, <<"x","t","e","r","m","-","2","5","6","c","o","l","o","r">>)
    THEN [Success |-> "U+2705", Failure |-> "U+274C"]
    ELSE [Success |-> "[+]", Failure |-> "[!]"]

GetStatusSymbols(env) ==
    LET byProgram ==
            /\ env.TERM_PROGRAM # <<>>
            /\ \E i \in 1..Len(goodTerms) :
                   Contains(ToLower(env.TERM_PROGRAM), ToLower(goodTerms[i]))
        useEmoji ==
            \/ byProgram
            \/ Contains(env.COLORTERM, <<"t","r","u","e","c","o","l","o","r">>)
            \/ Contains(env.COLORTERM, <<"2","4","b","i","t">>)
            \/ Contains(env.TERM, <<"x","t","e","r","m","-","2","5","6","c","o","l","o","r">>)
    IN  IF useEmoji THEN [Success |-> "U+2705", Failure |-> "U+274C"]
        ELSE [Success |-> "[+]", Failure |-> "[!]"]

ResultLine_AlwaysSuccess(symbols, result) ==
    << symbols.Success, " ", result.Name, ": ", result.Description >>

\* Lines 283-293: fmt.Sprintf("%s %s: %s\n", symbol, result.Name, result.Description)
ResultLine(symbols, result) ==
    << IF result.Passed THEN symbols.Success ELSE symbols.Failure,
       " ", result.Name, ": ", result.Description >>

\* Lines 280-295: the text built, as its newline-terminated lines; the
\* header ends in two newlines, so an empty line follows it.
ComplianceText(ns, symbols, res) ==
    << <<"Compliance check for namespace: ", ns>>, <<>> >>
        \o [i \in 1..Len(res) |-> ResultLine(symbols, res[i])]

RulesFrame == UNCHANGED <<appLabel, debugLog, labelSelector, podNames, podInfoList,
                          podInfo, vIn, vOut, krakendConfig, namespace, termEnv,
                          vPrev, updates, events>>

\* Rule 1: list the pods, judge them, append the result.
PodRule ==
    /\ pc = "L172"
    /\ \E out \in Outcomes(PodUniverse, MaxPods) :
        /\ calls' = Append(calls, Call("Pods.List", appLabel, out))
        /\ results' = Append(results,
               RuleResult("Service Account",
                          <<"Pod serviceAccountName matches app label value">>,
                          podServiceAccountValid(out, appLabel)))
    /\ pc' = "L194"
    /\ UNCHANGED <<service, selIdx>>
    /\ UNCHANGED <<stdout, rendered>>
    /\ RulesFrame

\* Rule 2: list the deployments, judge them, append the result.
DeploymentRule ==
    /\ pc = "L194"
    /\ \E out \in Outcomes(DeploymentUniverse, MaxDeployments) :
        /\ calls' = Append(calls, Call("Deployments.List", appLabel, out))
        /\ results' = Append(results,
               RuleResult("Deployment Labels",
                          <<"Deployment has required labels (app, version)">>,
                          deploymentLabelsValid(out)))
    /\ pc' = IF appLabel # <<>> THEN "L228" ELSE "L256"
    /\ UNCHANGED <<service, selIdx>>
    /\ UNCHANGED <<stdout, rendered>>
    /\ RulesFrame

\* One iteration of the range over labelSelectors.
ServiceLookup ==
    /\ pc = "L228"
    /\ selIdx <= Len(labelSelectors(appLabel))
    /\ \E out \in Outcomes(ServiceUniverse, MaxServices) :
        /\ calls' = Append(calls, Call("Services.List", labelSelectors(appLabel)[selIdx], out))
        /\ IF ~out.err /\ Len(out.Items) > 0
           THEN /\ service' = out.Items[1]
                /\ selIdx' = selIdx
                /\ pc' = "L250"
           ELSE /\ service' = service
                /\ selIdx' = selIdx + 1
                /\ pc' = IF selIdx < Len(labelSelectors(appLabel)) THEN "L228" ELSE "L250"
    /\ UNCHANGED results
    /\ UNCHANGED <<stdout, rendered>>
    /\ RulesFrame

\* Rules 3 and 4: judge the service, if any, and append both results.
ServiceRules ==
    /\ pc \in {"L250", "L256"}
    /\ results' = results \o ServiceRuleResults(service, appLabel, debugLog)
    /\ pc' = "done"
    /\ UNCHANGED <<calls, service, selIdx>>
    /\ UNCHANGED <<stdout, rendered>>
    /\ RulesFrame

\* Lines 275-295 of GetRulesCompliance, after EvaluateRules has returned:
\* the Printf, the glyph pair, the text. The terminal environment read is
\* one without any signal, one with a listed TERM_PROGRAM in another case,
\* or one with a COLORTERM signal.
RenderCompliance ==
    /\ pc = "done"
    /\ stdout' = Append(stdout, <<"app-lable", "%!(EXTRA string=", appLabel, ")">>)
    /\ \E env \in {
            [TERM_PROGRAM |-> <<>>, COLORTERM |-> <<>>, TERM |-> <<"d","u","m","b">>],
            [TERM_PROGRAM |-> <<"V","S","C","o","d","e">>, COLORTERM |-> <<>>,
             TERM |-> <<>>],
            [TERM_PROGRAM |-> <<>>, COLORTERM |-> <<"t","r","u","e","c","o","l","o","r">>,
             TERM |-> <<>>] } :
        /\ termEnv' = env
        /\ rendered' = ComplianceText(namespace, GetStatusSymbols(env), results)
    /\ pc' = "rendered"
    /\ UNCHANGED <<appLabel, debugLog, calls, labelSelector, podNames, podInfoList,
                   podInfo, results, service, selIdx, vIn, vOut, krakendConfig,
                   namespace, vPrev, updates, events>>

InitRules ==
    /\ pc = "L172"
    /\ appLabel \in RuleLabels
    /\ debugLog \in BOOLEAN
    /\ calls = <<>>
    /\ labelSelector = <<>>
    /\ podNames = <<>>
    /\ podInfoList = <<>>
    /\ podInfo = NoPanel
    /\ results = <<>>
    /\ service = Nil
    /\ selIdx = 1
    /\ vIn = Nil
    /\ vOut = FALSE
    /\ krakendConfig = <<>>
    /\ namespace \in {"default", "prod"}
    /\ termEnv = Nil
    /\ stdout = <<>>
    /\ rendered = <<>>
    /\ vPrev = Nil
    /\ updates = <<>>
    /\ events = 0

NextRules ==
    \/ PodRule
    \/ DeploymentRule
    \/ ServiceLookup
    \/ ServiceRules
    \/ RenderCompliance

SpecRules == InitRules /\ [][NextRules]_vars

----------------------------------------------------------------------------
(* The Validate* functions applied to one service *)

RECURSIVE SeqsUpTo(_, _)
SeqsUpTo(S, n) ==
    IF n = 0 THEN { <<>> }
    ELSE LET shorter == SeqsUpTo(S, n - 1)
         IN  shorter \cup { Append(q, x) : q \in shorter, x \in S }

PortLists == { [i \in 1..Len(q) |-> Port(q[i])] : q \in SeqsUpTo(PortNames, MaxPorts) }

ServiceLabelSets ==
    { NilLabels, Labels(EmptyMap), Labels("team" :> "true") }
      \cup { Labels("scrape_tls" :> v) : v \in {"true", "True", "1", "", "false"} }

ValidateInputs ==
    { Service("svc", ports, labels) : ports \in PortLists, labels \in ServiceLabelSets }

\* What a call of the function under test leaves alone.
ValidateFrame == UNCHANGED <<appLabel, debugLog, calls, labelSelector, podNames,
                             podInfoList, podInfo, results, service, selIdx, vIn,
                             krakendConfig, namespace, termEnv, stdout, rendered,
                             vPrev, updates, events>>

\* A nil pointer dereference ends the call with a run-time panic.
CallValidateServicePortNaming ==
    /\ pc = "call"
    /\ IF ValidateServicePortNamingPanics(vIn, debugLog)
       THEN /\ vOut' = [fn |-> "ValidateServicePortNaming",
                        panic |-> "nil pointer dereference"]
            /\ pc' = "panicked"
       ELSE /\ vOut' = [fn |-> "ValidateServicePortNaming",
                        ret |-> ValidateServicePortNaming(vIn, debugLog)]
            /\ pc' = "returned"
    /\ ValidateFrame

\* internal/kubernetes/service.go, isValidIstioPortName: the name is a
\* listed protocol, or starts with one that is followed by "-".
isValidIstioPortName(portName) ==
    LET protocols == << <<"h","t","t","p">>, <<"h","t","t","p","2">>,
                        <<"h","t","t","p","s">>, <<"t","c","p">>, <<"t","l","s">>,
                        <<"g","r","p","c">>, <<"m","o","n","g","o">>,
                        <<"r","e","d","i","s">> >>
    IN  /\ portName # <<>>
        /\ \E k \in 1..Len(protocols) :
               /\ HasPrefix(portName, protocols[k])
               /\ \/ Len(portName) = Len(protocols[k])
                  \/ portName[Len(protocols[k]) + 1] = "-"

\* GetServiceInfo, lines 20-26: the validity mark of every port of the
\* service that the lookup returned.
CallGetServiceInfo ==
    /\ pc = "call"
    /\ vIn # Nil
    /\ vOut' = [fn |-> "GetServiceInfo",
                ret |-> [i \in 1..Len(vIn.Ports) |-> isValidIstioPortName(vIn.Ports[i].Name)]]
    /\ pc' = "returned"
    /\ ValidateFrame

CallValidateServiceHasScrapeTLS ==
    /\ pc = "call"
    /\ vOut' = [fn |-> "ValidateServiceHasScrapeTLS",
                ret |-> ValidateServiceHasScrapeTLS(vIn)]
    /\ pc' = "returned"
    /\ ValidateFrame

InitValidate ==
    /\ pc = "call"
    /\ vIn \in ValidateInputs \cup { Nil }
    /\ vOut = FALSE
    /\ debugLog \in BOOLEAN
    /\ appLabel = <<>>
    /\ calls = <<>>
    /\ labelSelector = <<>>
    /\ podNames = <<>>
    /\ podInfoList = <<>>
    /\ podInfo = NoPanel
    /\ results = <<>>
    /\ service = Nil
    /\ selIdx = 1
    /\ krakendConfig = <<>>
    /\ namespace = "default"
    /\ termEnv = Nil
    /\ stdout = <<>>
    /\ rendered = <<>>
    /\ vPrev = Nil
    /\ updates = <<>>
    /\ events = 0

NextValidate ==
    \/ CallValidateServicePortNaming
    \/ CallValidateServiceHasScrapeTLS
    \/ CallGetServiceInfo

SpecValidate == InitValidate /\ [][NextValidate]_vars

----------------------------------------------------------------------------
(* internal/tui/rules.go: the identifier cleaning of EvaluateRules, applied *)
(* to one label expression                                                *)

MaxValueLen == 3

\* Bare values: no "=" and no quote character.
BareValues == SeqsUpTo({"a", "p", "f"}, MaxValueLen)

Quote == <<"\"">>

\* The label expression a caller writes for the bare value v: optionally with
\* the app= prefix, and with quote characters around nothing, around the
\* value, or around the whole expression.
Expression(v, prefixed, quoting) ==
    LET prefix == IF prefixed THEN s_app_eq ELSE <<>>
    IN  CASE quoting = "none"  -> prefix \o v
          [] quoting = "value" -> prefix \o Quote \o v \o Quote
          [] quoting = "whole" -> Quote \o prefix \o v \o Quote


\* Lines 217-225: for a non-empty label the cleaned value and the selectors
\* built from it; for an empty label the block is skipped.
CallCleanLabel ==
    /\ pc = "call"
    /\ vOut' = [fn |-> "cleanLabel",
                cleaned |-> cleanLabel(vIn.expr),
                selectors |-> IF vIn.expr # <<>> THEN labelSelectors(vIn.expr)
                              ELSE <<>>]
    /\ pc' = "returned"
    /\ ValidateFrame

InitClean ==
    /\ pc = "call"
    /\ vIn \in { [v |-> v, prefixed |-> p, quoting |-> q, expr |-> Expression(v, p, q)] :
                     v \in BareValues, p \in BOOLEAN, q \in {"none", "value", "whole"} }
    /\ vOut = FALSE
    /\ debugLog = FALSE
    /\ appLabel = <<>>
    /\ calls = <<>>
    /\ labelSelector = <<>>
    /\ podNames = <<>>
    /\ podInfoList = <<>>
    /\ podInfo = NoPanel
    /\ results = <<>>
    /\ service = Nil
    /\ selIdx = 1
    /\ krakendConfig = <<>>
    /\ namespace = "default"
    /\ termEnv = Nil
    /\ stdout = <<>>
    /\ rendered = <<>>
    /\ vPrev = Nil
    /\ updates = <<>>
    /\ events = 0

SpecClean == InitClean /\ [][CallCleanLabel]_vars

----------------------------------------------------------------------------
(* internal/tui/krakend.go: decoded JSON values (interface{})              *)

Str(s) == [str |-> s]          \* string
Num(n) == [num |-> n]          \* float64
Obj(kv) == [obj |-> kv]        \* map[string]interface{}
Arr(items) == [arr |-> items]  \* []interface{}
JNull == [null |-> TRUE]       \* nil

IsStr(n) == DOMAIN n = {"str"}
IsObj(n) == DOMAIN n = {"obj"}
IsArr(n) == DOMAIN n = {"arr"}

\* m[k] on a Go map: the value, or nil when the key is missing.
Index(m, k) == IF k \in DOMAIN m THEN m[k] ELSE JNull

\* A character outside ASCII is one element named by its code point.

\* fmt.Sprintf("Endpoint: %s -> Backend: %s", endpointPath, url), line 116
BackendReference(endpointPath, url) ==
    <<"E","n","d","p","o","i","n","t",":"," ">> \o endpointPath
        \o <<" ","U+2192"," ","B","a","c","k","e","n","d",":"," ">> \o url

\* fmt.Sprintf("Endpoint: %s -> Host: %s", endpointPath, host), lines 125, 133
HostReference(endpointPath, host) ==
    <<"E","n","d","p","o","i","n","t",":"," ">> \o endpointPath
        \o <<" ","U+2192"," ","H","o","s","t",":"," ">> \o host

UrlReferences_WithoutRoute(backendMap, endpointPath, serviceName) ==
    LET url == Index(backendMap, "url_pattern")
    IN  IF IsStr(url) /\ Contains(url.str, serviceName)
        THEN << BackendReference(<<"u","n","k","n","o","w","n">>, url.str) >>
        ELSE <<>>

\* Lines 115-118: the url_pattern of one backend.
UrlReferences(backendMap, endpointPath, serviceName) ==
    LET url == Index(backendMap, "url_pattern")
    IN  IF IsStr(url) /\ Contains(url.str, serviceName)
        THEN << BackendReference(endpointPath, url.str) >>
        ELSE <<>>

RECURSIVE HostLoop_NoBreak(_, _, _, _)
HostLoop_NoBreak(host, i, endpointPath, serviceName) ==
    IF i > Len(host) THEN <<>>
    ELSE IF IsStr(host[i]) /\ Contains(host[i].str, serviceName)
    THEN << HostReference(endpointPath, host[i].str) >>
             \o HostLoop_NoBreak(host, i + 1, endpointPath, serviceName)
    ELSE HostLoop_NoBreak(host, i + 1, endpointPath, serviceName)

\* Lines 130-137: the range over a host array, left at the first match.
RECURSIVE HostLoop(_, _, _, _)
HostLoop(host, i, endpointPath, serviceName) ==
    IF i > Len(host) THEN <<>>
    ELSE IF IsStr(host[i]) /\ Contains(host[i].str, serviceName)
    THEN << HostReference(endpointPath, host[i].str) >>
    ELSE HostLoop(host, i + 1, endpointPath, serviceName)

\* Lines 121-139: the type switch on the host of one backend.
HostReferences(backendMap, endpointPath, serviceName) ==
    LET host == Index(backendMap, "host")
    IN  IF IsStr(host)
        THEN IF Contains(host.str, serviceName)
             THEN << HostReference(endpointPath, host.str) >>
             ELSE <<>>
        ELSE IF IsArr(host)
        THEN HostLoop(host.arr, 1, endpointPath, serviceName)
        ELSE <<>>

BackendReferences_HostFirst(backend, endpointPath, serviceName) ==
    IF ~IsObj(backend) THEN <<>>
    ELSE HostReferences(backend.obj, endpointPath, serviceName)
             \o UrlReferences(backend.obj, endpointPath, serviceName)

\* Lines 109-144: one iteration of the range over backends.
BackendReferences(backend, endpointPath, serviceName) ==
    IF ~IsObj(backend) THEN <<>>
    ELSE UrlReferences(backend.obj, endpointPath, serviceName)
             \o HostReferences(backend.obj, endpointPath, serviceName)

\* Lines 108-145: the range over the backends of one route.
RECURSIVE BackendLoop(_, _, _, _)
BackendLoop(backends, j, endpointPath, serviceName) ==
    IF j > Len(backends) THEN <<>>
    ELSE BackendReferences(backends[j], endpointPath, serviceName)
             \o BackendLoop(backends, j + 1, endpointPath, serviceName)

EndpointPath_KeepEmpty(endpointMap) ==
    LET endpoint == Index(endpointMap, "endpoint")
    IN  IF IsStr(endpoint) THEN endpoint.str ELSE <<"u","n","k","n","o","w","n">>

\* Lines 96-99: the endpoint path of one route.
EndpointPath(endpointMap) ==
    LET endpoint == Index(endpointMap, "endpoint")
        endpointPath == IF IsStr(endpoint) THEN endpoint.str ELSE <<>>
    IN  IF endpointPath = <<>> THEN <<"u","n","k","n","o","w","n">> ELSE endpointPath

RECURSIVE EndpointLoop_ReturnOnBadRoute(_, _, _)
EndpointLoop_ReturnOnBadRoute(endpoints, i, serviceName) ==
    IF i > Len(endpoints) THEN <<>>
    ELSE IF ~IsObj(endpoints[i]) THEN <<>>
    ELSE LET backends == Index(endpoints[i].obj, "backend")
         IN  IF ~IsArr(backends) THEN <<>>
             ELSE BackendLoop(backends.arr, 1, EndpointPath(endpoints[i].obj), serviceName)
                      \o EndpointLoop_ReturnOnBadRoute(endpoints, i + 1, serviceName)

\* Lines 89-146: the range over endpoints.
RECURSIVE EndpointLoop(_, _, _)
EndpointLoop(endpoints, i, serviceName) ==
    IF i > Len(endpoints) THEN <<>>
    ELSE IF ~IsObj(endpoints[i]) THEN EndpointLoop(endpoints, i + 1, serviceName)
    ELSE LET backends == Index(endpoints[i].obj, "backend")
         IN  IF ~IsArr(backends) THEN EndpointLoop(endpoints, i + 1, serviceName)
             ELSE BackendLoop(backends.arr, 1, EndpointPath(endpoints[i].obj), serviceName)
                      \o EndpointLoop(endpoints, i + 1, serviceName)

RECURSIVE findServiceReferences_NestedEndpoints(_, _)
findServiceReferences_NestedEndpoints(config, serviceName) ==
    IF ~IsObj(config) THEN <<>>
    ELSE LET endpoints == Index(config.obj, "endpoints")
             nested == Index(config.obj, "extra_config")
         IN  IF IsArr(endpoints) THEN EndpointLoop(endpoints.arr, 1, serviceName)
             ELSE findServiceReferences_NestedEndpoints(nested, serviceName)

\* Lines 73-149.
findServiceReferences(config, serviceName) ==
    IF ~IsObj(config) THEN <<>>
    ELSE LET endpoints == Index(config.obj, "endpoints")
         IN  IF ~IsArr(endpoints) THEN <<>>
             ELSE EndpointLoop(endpoints.arr, 1, serviceName)

----------------------------------------------------------------------------
(* internal/tui/krakend.go, lines 222-280: the recursive findServiceReferences.
   A range over a Go map visits the keys in an order that is not fixed, so
   the function has a set of possible results. *)

\* The orders in which a range over the map m can visit its keys.
KeyOrders(m) ==
    { order \in [1..Cardinality(DOMAIN m) -> DOMAIN m] :
          \A i, j \in DOMAIN order : i # j => order[i] # order[j] }

\* references = append(references, refs...) over a sequence of calls, each
\* with a set of possible results.
RECURSIVE Concatenations(_)
Concatenations(sets) ==
    IF sets = <<>> THEN { <<>> }
    ELSE { refs \o rest : refs \in Head(sets), rest \in Concatenations(Tail(sets)) }

RecursiveBackendReferences_HostFirst(endpointMap, backend, serviceName) ==
    IF ~IsObj(backend) THEN <<>>
    ELSE LET ep == Index(endpointMap, "endpoint")
             endpoint == IF IsStr(ep) THEN ep.str ELSE <<"u","n","k","n","o","w","n">>
             url == Index(backend.obj, "url_pattern")
             host == Index(backend.obj, "host")
         IN  (IF IsStr(host) /\ Contains(host.str, serviceName)
              THEN << HostReference(endpoint, host.str) >> ELSE <<>>)
             \o (IF IsStr(url) /\ Contains(url.str, serviceName)
                 THEN << BackendReference(endpoint, url.str) >> ELSE <<>>)

\* Lines 233-255: the citations of one backend of one route.
RecursiveBackendReferences(endpointMap, backend, serviceName) ==
    IF ~IsObj(backend) THEN <<>>
    ELSE LET ep == Index(endpointMap, "endpoint")
             endpoint == IF IsStr(ep) THEN ep.str ELSE <<"u","n","k","n","o","w","n">>
             url == Index(backend.obj, "url_pattern")
             host == Index(backend.obj, "host")
         IN  (IF IsStr(url) /\ Contains(url.str, serviceName)
              THEN << BackendReference(endpoint, url.str) >> ELSE <<>>)
             \o (IF IsStr(host) /\ Contains(host.str, serviceName)
                 THEN << HostReference(endpoint, host.str) >> ELSE <<>>)

\* Lines 222-280: the possible results.
RECURSIVE findServiceReferencesRecursive(_, _)
findServiceReferencesRecursive(config, serviceName) ==
    IF IsObj(config)
    THEN LET v == config.obj
             endpoints == Index(v, "endpoints")
             OfEndpoint(endpoint) ==
                 LET backends == IF IsObj(endpoint) THEN Index(endpoint.obj, "backend")
                                 ELSE JNull
                     cited == IF IsArr(backends)
                              THEN Concatenations([j \in 1..Len(backends.arr) |->
                                       { RecursiveBackendReferences(endpoint.obj,
                                             backends.arr[j], serviceName) }])
                              ELSE { <<>> }
                 IN  Concatenations(<< cited,
                                       findServiceReferencesRecursive(endpoint, serviceName) >>)
             fromEndpoints ==
                 IF IsArr(endpoints)
                 THEN Concatenations([i \in 1..Len(endpoints.arr) |->
                                          OfEndpoint(endpoints.arr[i])])
                 ELSE { <<>> }
             fromFields ==
                 UNION { Concatenations([i \in DOMAIN order |->
                             findServiceReferencesRecursive(v[order[i]], serviceName)]) :
                         order \in KeyOrders(v) }
         IN  Concatenations(<< fromEndpoints, fromFields >>)
    ELSE IF IsArr(config)
    THEN Concatenations([i \in 1..Len(config.arr) |->
                             findServiceReferencesRecursive(config.arr[i], serviceName)])
    ELSE { <<>> }

----------------------------------------------------------------------------
(* findServiceReferences applied to one document and one service name      *)

MaxBackends == 2
MaxRoutes == 2

t_svc_x == <<"s","v","c","-","x">>
u_svc_x_path == <<"h","t","t","p",":","/","/","s","v","c","-","x","/","p","a","t","h">>
u_db == <<"h","t","t","p",":","/","/","d","b","/">>
h_a_svc == <<"a","-","s","v","c">>
h_svc_x_helper == <<"s","v","c","-","x","-","h","e","l","p","e","r">>
e_a == <<"/","a">>
e_b == <<"/","b">>

\* The service names searched for: one that occurs, and the empty string.
ServiceNames == { t_svc_x, <<>> }

BackendUniverse == {
    Obj("url_pattern" :> Str(u_svc_x_path)),
    Obj("url_pattern" :> Str(u_svc_x_path)
            @@ "host" :> Arr(<<Str(h_a_svc), Str(h_svc_x_helper)>>)),
    Obj("host" :> Str(t_svc_x)),
    Obj("host" :> Arr(<<Str(h_a_svc), Str(h_svc_x_helper)>>)),
    Obj("url_pattern" :> Str(u_db)
            @@ "host" :> Arr(<<Num(7), Str(t_svc_x), Str(h_svc_x_helper)>>)),
    Obj("url_pattern" :> Str(u_db) @@ "host" :> Str(h_a_svc)),
    Obj("url_pattern" :> Num(7) @@ "host" :> Num(7)),
    Str(t_svc_x) }

\* Routes with every list of backends, with and without an endpoint value,
\* and routes of the wrong shape.
RichRoutes ==
    LET backendLists == SeqsUpTo(BackendUniverse, MaxBackends)
    IN  { Obj("endpoint" :> ev @@ "backend" :> Arr(bl)) :
              ev \in { Str(e_a), Str(<<>>), Num(7) }, bl \in backendLists }
      \cup { Obj("backend" :> Arr(bl)) : bl \in backendLists }
      \cup { Str(u_svc_x_path),
             Obj("endpoint" :> Str(e_a)),
             Obj("endpoint" :> Str(e_a)
                     @@ "backend" :> Obj("url_pattern" :> Str(u_svc_x_path))) }

\* The routes of documents with several routes.
RouteUniverse == {
    Obj("endpoint" :> Str(e_a)
            @@ "backend" :> Arr(<<Obj("url_pattern" :> Str(u_svc_x_path))>>)),
    Obj("endpoint" :> Str(e_b)
            @@ "backend" :> Arr(<<Obj("host" :> Str(t_svc_x)),
                                  Obj("url_pattern" :> Str(u_svc_x_path)
                                          @@ "host" :> Str(h_svc_x_helper))>>)),
    Str(u_svc_x_path),
    Obj("endpoint" :> Str(e_b) @@ "backend" :> Str(u_svc_x_path)) }

Documents ==
    { Obj("endpoints" :> Arr(<<r>>)) : r \in RichRoutes }
      \cup { Obj("endpoints" :> Arr(rl)) : rl \in SeqsUpTo(RouteUniverse, MaxRoutes) }
      \cup { Obj("endpoints" :> Obj("endpoint" :> Str(e_a))),
             Obj("version" :> Num(3)),
             Obj(EmptyMap),
             Arr(<<Obj("url_pattern" :> Str(u_svc_x_path))>>),
             Str(u_svc_x_path),
             JNull }
      \cup { Obj("name" :> Str(t_svc_x)
                     @@ "extra_config" :> Obj("host" :> Str(t_svc_x)
                                                  @@ "url_pattern" :> Str(u_svc_x_path))
                     @@ "endpoints" :> Arr(<<
                            Obj("endpoint" :> Str(e_a)
                                    @@ "extra_config" :> Obj("url_pattern" :> Str(u_svc_x_path))
                                    @@ "backend" :> Arr(<<
                                           Obj("url_pattern" :> Str(u)
                                                   @@ "method" :> Str(t_svc_x)
                                                   @@ "extra_config" :> Obj("host" :> Str(t_svc_x)))
                                       >>)) >>)) : u \in { u_svc_x_path, u_db } }
      \cup { Obj("extra_config" :> Obj("endpoints" :> Arr(<<r>>))) : r \in RouteUniverse }
      \cup { Obj("endpoints" :> Arr(<<
                     Obj("endpoint" :> Str(e_b)
                             @@ "endpoints" :> Arr(<<r>>)
                             @@ "backend" :> Arr(<< Obj("url_pattern" :> Str(u_db)
                                                        @@ "endpoints" :> Arr(<<r>>)) >>))
                 >>)) : r \in RouteUniverse }

CallFindServiceReferences ==
    /\ pc = "call"
    /\ vOut' = [fn |-> "findServiceReferences",
                ret |-> findServiceReferences(vIn.config, vIn.serviceName)]
    /\ pc' = "returned"
    /\ ValidateFrame

\* The same document and service name given to the recursive function.
CallRecursiveVariant ==
    /\ pc = "returned"
    /\ vOut.fn = "findServiceReferences"
    /\ \E references \in findServiceReferencesRecursive(vIn.config, vIn.serviceName) :
           vOut' = [fn |-> "findServiceReferences (recursive)", ret |-> references]
    /\ vPrev' = vOut
    /\ pc' = "compared"
    /\ UNCHANGED <<appLabel, debugLog, calls, labelSelector, podNames, podInfoList,
                   podInfo, results, service, selIdx, vIn, krakendConfig, namespace,
                   termEnv, stdout, rendered, updates, events>>

InitScan ==
    /\ pc = "call"
    /\ vIn \in { [config |-> d, serviceName |-> t] : d \in Documents, t \in ServiceNames }
    /\ vOut = FALSE
    /\ debugLog = FALSE
    /\ appLabel = <<>>
    /\ calls = <<>>
    /\ labelSelector = <<>>
    /\ podNames = <<>>
    /\ podInfoList = <<>>
    /\ podInfo = NoPanel
    /\ results = <<>>
    /\ service = Nil
    /\ selIdx = 1
    /\ krakendConfig = <<>>
    /\ namespace = "default"
    /\ termEnv = Nil
    /\ stdout = <<>>
    /\ rendered = <<>>
    /\ vPrev = Nil
    /\ updates = <<>>
    /\ events = 0

SpecScan == InitScan /\ [][CallFindServiceReferences \/ CallRecursiveVariant]_vars

----------------------------------------------------------------------------
(* internal/tui/krakend.go: KrakenDBackendServiceCheck                     *)

k_krakend_json == <<"k","r","a","k","e","n","d",".","j","s","o","n">>

\* strings.HasSuffix(s, suffix)
HasSuffix(s, suffix) ==
    /\ Len(s) >= Len(suffix)
    /\ SubSeq(s, Len(s) - Len(suffix) + 1, Len(s)) = suffix

\* The text of one config map entry, by what it holds: nothing (""), text
\* that is not JSON, or the JSON text of a value.
EmptyText == [empty |-> TRUE]
InvalidText == [invalid |-> TRUE]
JSONText(value) == [json |-> value]

\* json.Unmarshal([]byte(text), &config) with config a map[string]interface{}:
\* an object fills the map, null leaves it nil without an error, any other
\* value and any text that is not JSON is an error.
Unmarshal(text) ==
    IF DOMAIN text = {"json"} /\ IsObj(text.json) THEN [err |-> FALSE, config |-> text.json]
    ELSE IF DOMAIN text = {"json"} /\ text.json = JNull
    THEN [err |-> FALSE, config |-> Obj(EmptyMap)]
    ELSE [err |-> TRUE, config |-> Obj(EmptyMap)]

DocumentA ==
    Obj("endpoints" :> Arr(<< Obj("endpoint" :> Str(e_a)
        @@ "backend" :> Arr(<< Obj("url_pattern" :> Str(u_svc_x_path)) >>)) >>))
DocumentB ==
    Obj("endpoints" :> Arr(<< Obj("endpoint" :> Str(e_b)
        @@ "backend" :> Arr(<< Obj("host" :> Str(t_svc_x)) >>)) >>))

\* configMap.Data: each key absent or present with one of the texts.
ConfigMapData ==
    UNION { [K -> { EmptyText, InvalidText, JSONText(DocumentA), JSONText(DocumentB),
                    JSONText(JNull), JSONText(Arr(<<DocumentA>>)) }] :
                K \in SUBSET { k_krakend_json, <<"a",".","j","s","o","n">>,
                               <<"b",".","j","s","o","n">>,
                               <<"c","o","n","f","i","g",".","y","a","m","l">> } }

\* The result of ConfigMaps(namespace).Get: (configMap, err).
ConfigMapOutcomes ==
    { [err |-> FALSE, Data |-> d] : d \in ConfigMapData }
      \cup { [err |-> TRUE, Data |-> EmptyMap] }

\* return result, err
Return(result, err) == [fn |-> "KrakenDBackendServiceCheck", result |-> result, err |-> err]

NoResult == [text |-> "", serviceName |-> <<>>, references |-> <<>>]

\* Lines 58-68: the result text for the references found.
ResultText(serviceName, references) ==
    IF Len(references) = 0
    THEN [text |-> "Service not found in KrakenD backend configuration",
          serviceName |-> serviceName, references |-> <<>>]
    ELSE [text |-> "Service found in backend configurations",
          serviceName |-> serviceName,
          references |-> [i \in 1..Len(references) |-> <<i, references[i]>>]]

KrakendFrame == UNCHANGED <<appLabel, debugLog, labelSelector, podNames, podInfoList,
                            podInfo, results, service, selIdx, vIn, namespace,
                            termEnv, stdout, rendered, vPrev, updates, events>>

\* Lines 25-33: the client test and the config map lookup.  The config map
\* does not change between two checks: a second lookup answers as the first.
GetConfigMap ==
    /\ pc = "L25"
    /\ IF vIn.clientset = Nil
       THEN /\ vOut' = Return(NoResult, "kubernetes client not initialized")
            /\ pc' = "returned"
            /\ UNCHANGED calls
       ELSE \E out \in IF calls = <<>> THEN ConfigMapOutcomes ELSE { calls[1].out } :
            /\ calls' = Append(calls, Call("ConfigMaps.Get", "configMapName", out))
            /\ IF out.err
               THEN /\ vOut' = Return(NoResult, "failed to get ConfigMap")
                    /\ pc' = "returned"
               ELSE /\ vOut' = vOut
                    /\ pc' = "L36"
    /\ UNCHANGED krakendConfig
    /\ KrakendFrame

FirstJSONKeys_AnyKey(data) == DOMAIN data

\* The keys a range over configMap.Data can stop at: the iteration order of
\* a Go map is not fixed, so any key with the suffix can come first.
FirstJSONKeys(data) == { key \in DOMAIN data : HasSuffix(key, <<".","j","s","o","n">>) }

\* Lines 36-48: the choice of the entry to scan.
SelectConfig ==
    /\ pc = "L36"
    /\ LET data == calls[1].out.Data
       IN  IF k_krakend_json \in DOMAIN data
           THEN /\ krakendConfig' = data[k_krakend_json]
                /\ pc' = "L51"
                /\ vOut' = vOut
           ELSE \E chosen \in IF FirstJSONKeys(data) = {} THEN { EmptyText }
                              ELSE { data[key] : key \in FirstJSONKeys(data) } :
                /\ krakendConfig' = chosen
                /\ IF chosen = EmptyText
                   THEN /\ vOut' = Return(NoResult, "no JSON configuration found in ConfigMap")
                        /\ pc' = "returned"
                   ELSE /\ vOut' = vOut
                        /\ pc' = "L51"
    /\ UNCHANGED calls
    /\ KrakendFrame

\* Lines 51-68: parse the text, scan the document, build the result.
ParseAndScan ==
    /\ pc = "L51"
    /\ LET parsed == Unmarshal(krakendConfig)
       IN  vOut' = IF parsed.err
                   THEN Return(NoResult, "failed to parse KrakenD configuration")
                   ELSE Return(ResultText(vIn.serviceName,
                                   findServiceReferences(parsed.config, vIn.serviceName)),
                               "nil")
    /\ pc' = "returned"
    /\ UNCHANGED <<calls, krakendConfig>>
    /\ KrakendFrame

\* The caller runs the check a second time with the same arguments.
CheckAgain ==
    /\ pc = "returned"
    /\ vPrev = Nil
    /\ vPrev' = vOut
    /\ vOut' = FALSE
    /\ krakendConfig' = EmptyText
    /\ pc' = "L25"
    /\ UNCHANGED <<appLabel, debugLog, calls, labelSelector, podNames, podInfoList,
                   podInfo, results, service, selIdx, vIn, namespace, termEnv, stdout,
                   rendered, updates, events>>

InitKrakend ==
    /\ pc = "L25"
    /\ vIn \in { [clientset |-> c, serviceName |-> t] :
                     c \in {Nil, [nil |-> FALSE]}, t \in ServiceNames }
    /\ vOut = FALSE
    /\ krakendConfig = EmptyText
    /\ debugLog = FALSE
    /\ appLabel = <<>>
    /\ calls = <<>>
    /\ labelSelector = <<>>
    /\ podNames = <<>>
    /\ podInfoList = <<>>
    /\ podInfo = NoPanel
    /\ results = <<>>
    /\ service = Nil
    /\ selIdx = 1
    /\ namespace = "default"
    /\ termEnv = Nil
    /\ stdout = <<>>
    /\ rendered = <<>>
    /\ vPrev = Nil
    /\ updates = <<>>
    /\ events = 0

NextKrakend ==
    \/ GetConfigMap
    \/ SelectConfig
    \/ ParseAndScan
    \/ CheckAgain

SpecKrakend == InitKrakend /\ [][NextKrakend]_vars

----------------------------------------------------------------------------
(* GetStatusSymbols called on its own (rules.go:35-76): the three environment
   variables are the arguments, the glyph pair is the result.  The function
   is called twice in the same environment. *)

CallGetStatusSymbols ==
    /\ pc \in {"call", "returned"}
    /\ vPrev' = vOut
    /\ vOut' = [fn |-> "GetStatusSymbols", ret |-> GetStatusSymbols(termEnv)]
    /\ pc' = IF pc = "call" THEN "returned" ELSE "repeated"
    /\ UNCHANGED <<appLabel, debugLog, calls, labelSelector, podNames, podInfoList,
                   podInfo, results, service, selIdx, vIn, krakendConfig, namespace,
                   termEnv, stdout, rendered, updates, events>>

InitProbe ==
    /\ pc = "call"
    /\ termEnv \in [TERM_PROGRAM : { <<>>,
                                      <<"v","s","c","o","d","e">>,
                                      <<"V","S","C","o","d","e">>,
                                      <<"i","T","e","r","m",".","a","p","p">>,
                                      <<"t","m","u","x">>,
                                      <<"m","y","-","K","I","T","T","Y">> },
                    COLORTERM : { <<>>,
                                   <<"t","r","u","e","c","o","l","o","r">>,
                                   <<"2","4","b","i","t">>,
                                   <<"2","5","6">>,
                                   <<"T","r","u","e","C","o","l","o","r">> },
                    TERM : { <<>>,
                              <<"x","t","e","r","m","-","2","5","6","c","o","l","o","r">>,
                              <<"x","t","e","r","m">>,
                              <<"s","c","r","e","e","n",".","x","t","e","r","m","-","2","5","6","c","o","l","o","r">> }]
    /\ vIn = Nil
    /\ vOut = Nil
    /\ debugLog = FALSE
    /\ appLabel = <<>>
    /\ calls = <<>>
    /\ labelSelector = <<>>
    /\ podNames = <<>>
    /\ podInfoList = <<>>
    /\ podInfo = NoPanel
    /\ results = <<>>
    /\ service = Nil
    /\ selIdx = 1
    /\ krakendConfig = <<>>
    /\ namespace = "default"
    /\ stdout = <<>>
    /\ rendered = <<>>
    /\ vPrev = Nil
    /\ updates = <<>>
    /\ events = 0

SpecProbe == InitProbe /\ [][CallGetStatusSymbols]_vars

----------------------------------------------------------------------------
(* main with the UI loop started in a goroutine.  pc holds the position of
   the main goroutine and the state of the goroutine running app.Run(); vOut
   is the exit status of the process, Nil while it runs. *)

MaxEvents == 3

MainFrame == UNCHANGED <<appLabel, debugLog, calls, labelSelector, podNames,
                         podInfoList, podInfo, results, service, selIdx, vIn,
                         krakendConfig, namespace, termEnv, vPrev>>

\* log.Fatalf: the message is written and the process exits with status 1,
\* whatever the other goroutine is doing.
Fatalf ==
    /\ vOut' = [exit |-> 1]
    /\ pc' = [main |-> "exited", ui |-> "exited"]

\* The flags, the Printf of the parameters and the kubeconfig path.
ResolveKubeconfig ==
    /\ vOut = Nil
    /\ pc.main = "L19"
    /\ stdout' = Append(stdout, "Using parameters")
    /\ IF vIn.KUBECONFIG = "" /\ vIn.homeDirErr
       THEN Fatalf
       ELSE /\ pc' = [pc EXCEPT !.main = "L52"]
            /\ vOut' = vOut
    /\ UNCHANGED <<updates, events, rendered>>
    /\ MainFrame

\* go func() { err := app.Run(); ... }()
StartUILoop ==
    /\ vOut = Nil
    /\ pc.main = "L52"
    /\ pc' = [main |-> "L60", ui |-> "running"]
    /\ UNCHANGED <<vOut, stdout, updates, events, rendered>>
    /\ MainFrame

\* clientcmd.BuildConfigFromFlags and its error test.
BuildConfig ==
    /\ vOut = Nil
    /\ pc.main = "L60"
    /\ \E err \in BOOLEAN :
           IF err THEN Fatalf
           ELSE /\ pc' = [pc EXCEPT !.main = "L65"]
                /\ vOut' = vOut
    /\ UNCHANGED <<stdout, updates, events, rendered>>
    /\ MainFrame

\* kubernetes.NewForConfig and its error test.
NewClientset ==
    /\ vOut = Nil
    /\ pc.main = "L65"
    /\ \E err \in BOOLEAN :
           IF err THEN Fatalf
           ELSE /\ pc' = [pc EXCEPT !.main = "L71"]
                /\ vOut' = vOut
    /\ UNCHANGED <<stdout, updates, events, rendered>>
    /\ MainFrame

\* app.QueueUpdateDraw(func() { renderTUI(...) }); then main is at select {}.
QueueUpdateDraw ==
    /\ vOut = Nil
    /\ pc.main = "L71"
    /\ updates' = Append(updates, "renderTUI")
    /\ pc' = [pc EXCEPT !.main = "L76"]
    /\ UNCHANGED <<vOut, stdout, events, rendered>>
    /\ MainFrame

\* The UI loop handles a key or resize event and redraws.
HandleEvent ==
    /\ vOut = Nil
    /\ pc.ui = "running"
    /\ events < MaxEvents
    /\ events' = events + 1
    /\ UNCHANGED <<pc, vOut, stdout, updates, rendered>>
    /\ MainFrame

\* The UI loop runs a queued function: renderTUI draws the dashboard.
RunUpdate ==
    /\ vOut = Nil
    /\ pc.ui = "running"
    /\ updates # <<>>
    /\ updates' = Tail(updates)
    /\ rendered' = << Head(updates) >>
    /\ UNCHANGED <<pc, vOut, stdout, events>>
    /\ MainFrame

\* The user quits: app.Run() returns nil and the goroutine ends.
UserQuits ==
    /\ vOut = Nil
    /\ pc.ui = "running"
    /\ pc' = [pc EXCEPT !.ui = "ended"]
    /\ UNCHANGED <<vOut, stdout, updates, events, rendered>>
    /\ MainFrame

\* app.Run() returns an error: log.Fatalf in the goroutine.
RunFails ==
    /\ vOut = Nil
    /\ pc.ui = "running"
    /\ Fatalf
    /\ UNCHANGED <<stdout, updates, events, rendered>>
    /\ MainFrame

InitMain ==
    /\ pc = [main |-> "L19", ui |-> "not started"]
    /\ vIn \in { [KUBECONFIG |-> k, homeDirErr |-> e] :
                     k \in {"", "/etc/kubeconfig"}, e \in BOOLEAN }
    /\ vOut = Nil
    /\ debugLog \in BOOLEAN
    /\ appLabel = <<>>
    /\ calls = <<>>
    /\ labelSelector = <<>>
    /\ podNames = <<>>
    /\ podInfoList = <<>>
    /\ podInfo = NoPanel
    /\ results = <<>>
    /\ service = Nil
    /\ selIdx = 1
    /\ krakendConfig = <<>>
    /\ namespace = "default"
    /\ termEnv = Nil
    /\ stdout = <<>>
    /\ rendered = <<>>
    /\ vPrev = Nil
    /\ updates = <<>>
    /\ events = 0

\* main has no step at select {} (line 76), and an ended goroutine has none.
NextMain ==
    \/ ResolveKubeconfig
    \/ StartUILoop
    \/ BuildConfig
    \/ NewClientset
    \/ QueueUpdateDraw
    \/ HandleEvent
    \/ RunUpdate
    \/ UserQuits
    \/ RunFails

\* Both goroutines are scheduled: a step that stays possible is taken.
SpecMain == InitMain /\ [][NextMain]_vars /\ WF_vars(NextMain)

----------------------------------------------------------------------------
(* Properties of the rule evaluator *)

RuleNames == << "Service Account", "Deployment Labels", "Service Port Naming",
                "Service scrape_tls Label" >>

IsServiceCall(c) == c.fn = "Services.List"
ServiceCalls == SelectSeq(calls, IsServiceCall)

\* The service lookups that succeeded with a non-empty list.
WinningServiceCalls == { i \in 1..Len(ServiceCalls) : Yielded(ServiceCalls[i]) }

\* Rule 1 as the specification states it.
SpecServiceAccountPasses(out) ==
    /\ ~out.err
    /\ \E i \in 1..Len(out.Items) :
           LET pod == out.Items[i]
           IN  /\ pod.ServiceAccountName # ""
               /\ "app" \in DOMAIN pod.Labels
               /\ pod.ServiceAccountName = pod.Labels["app"]

\* Rule 2 as the specification states it.
SpecDeploymentLabelsPass(out) ==
    /\ ~out.err
    /\ \E i \in 1..Len(out.Items) : {"app", "version"} \subseteq DOMAIN out.Items[i].Labels

SpecVocabulary == {
    <<"h","t","t","p">>, <<"h","t","t","p","2">>, <<"h","t","t","p","s">>,
    <<"t","c","p">>, <<"t","l","s">>, <<"g","r","p","c">>,
    <<"m","o","n","g","o">>, <<"r","e","d","i","s">> }

\* The substring of s before its first "-" (all of s when it has none).
BeforeFirstDash(s) ==
    LET dashes == { i \in 1..Len(s) : s[i] = "-" }
    IN  IF dashes = {} THEN s
        ELSE SubSeq(s, 1, (CHOOSE i \in dashes : \A j \in dashes : i <= j) - 1)

\* Rule 3 as the specification states it.
SpecPortNamingPasses(ports) ==
    /\ Len(ports) >= 1
    /\ \A i \in 1..Len(ports) :
           /\ ports[i].Name # <<>>
           /\ BeforeFirstDash(ToLower(ports[i].Name)) \in SpecVocabulary

\* Rule 4 as the specification states it.
SpecScrapeTLSPasses(labels) ==
    /\ ~labels.isNil
    /\ "scrape_tls" \in DOMAIN labels.kv
    /\ labels.kv["scrape_tls"] = "true"

\* C5: EvaluateRules returns exactly four results, named Service Account,
\* Deployment Labels, Service Port Naming, Service scrape_tls Label in this
\* order, whatever the lookups returned and whatever the label argument; on
\* the way the results are always a prefix of that list.
C5_FourResultsInFixedOrder ==
    /\ Len(results) <= 4
    /\ \A i \in 1..Len(results) : results[i].Name = RuleNames[i]
    /\ pc = "done" => Len(results) = 4

C5_Witness ==
    /\ pc = "done"
    /\ appLabel # <<>>
    /\ Len(calls) = 4
    /\ \A i \in 1..4 : calls[i].out.err
    /\ Len(results) = 4

\* C6: a rule whose lookup failed (pods for rule 1, deployments for rule 2,
\* every service lookup for rules 3 and 4) has passed = FALSE, and each
\* rule's verdict is determined by its own lookups alone: a failure of
\* another rule's lookup does not change it.
C6_DegradeToFail ==
    pc = "done" =>
        /\ calls[1].out.err => ~results[1].Passed
        /\ calls[2].out.err => ~results[2].Passed
        /\ (\A i \in 1..Len(ServiceCalls) : ServiceCalls[i].out.err)
               => (~results[3].Passed /\ ~results[4].Passed)
        /\ results[1].Passed = SpecServiceAccountPasses(calls[1].out)
        /\ results[2].Passed = SpecDeploymentLabelsPass(calls[2].out)
        /\ WinningServiceCalls = {} => (~results[3].Passed /\ ~results[4].Passed)
        /\ WinningServiceCalls # {} =>
               LET won == ServiceCalls[CHOOSE i \in WinningServiceCalls : TRUE].out.Items[1]
               IN  /\ results[3].Passed = SpecPortNamingPasses(won.Ports)
                   /\ results[4].Passed = SpecScrapeTLSPasses(won.Labels)

C6_Witness ==
    /\ pc = "done"
    /\ calls[1].out.err
    /\ ~calls[2].out.err
    /\ results[2].Passed
    /\ ~results[1].Passed
    /\ Len(ServiceCalls) = 2
    /\ ServiceCalls[1].out.err
    /\ results[3].Passed
    /\ results[4].Passed

\* C8: the Service Account rule passes iff the pod lookup succeeded and some
\* returned pod has a non-empty serviceAccountName equal, case-sensitively,
\* to that same pod's app label value; no pods, no app label, or accounts
\* that only match another pod's label fail.
C8_ServiceAccountMatchesOwnLabel ==
    Len(results) >= 1 =>
        /\ results[1].Passed = SpecServiceAccountPasses(calls[1].out)
        /\ Len(calls[1].out.Items) = 0 => ~results[1].Passed
        /\ (\A i \in 1..Len(calls[1].out.Items) :
                "app" \notin DOMAIN calls[1].out.Items[i].Labels) => ~results[1].Passed

\* Two pods, each account equal to the other pod's app label, none to its own.
C8_Witness ==
    /\ Len(results) >= 1
    /\ ~calls[1].out.err
    /\ Len(calls[1].out.Items) = 2
    /\ \A i \in 1..2 : "app" \in DOMAIN calls[1].out.Items[i].Labels
    /\ calls[1].out.Items[1].ServiceAccountName = calls[1].out.Items[2].Labels["app"]
    /\ calls[1].out.Items[2].ServiceAccountName = calls[1].out.Items[1].Labels["app"]
    /\ ~results[1].Passed

\* C9: the Deployment Labels rule passes iff some listed deployment carries
\* both the app and the version label key, whatever their values; zero
\* deployments, or the two keys on different deployments only, fail.
C9_DeploymentHasBothKeys ==
    Len(results) >= 2 =>
        /\ results[2].Passed = SpecDeploymentLabelsPass(calls[2].out)
        /\ Len(calls[2].out.Items) = 0 => ~results[2].Passed

\* The two keys are present, but on different deployments.
C9_Witness ==
    /\ Len(results) >= 2
    /\ Len(calls[2].out.Items) = 2
    /\ DOMAIN calls[2].out.Items[1].Labels = {"app"}
    /\ DOMAIN calls[2].out.Items[2].Labels = {"version"}
    /\ ~results[2].Passed

\* The i-th service selector the specification names for the bare value v.
SpecServiceSelector(i, v) ==
    IF i = 1 THEN <<"a","p","p","=">> \o v
    ELSE <<"a","r","g","o","c","d",".","a","r","g","o","p","r","o","j",".",
           "i","o","/","i","n","s","t","a","n","c","e","=">> \o v

\* Every non-empty label argument of RuleLabels names the bare value foo.
SpecBareValue == <<"f","o","o">>

\* C11: the service lookups query app=<cleaned> first and
\* argocd.argoproj.io/instance=<cleaned> second; the second selector is
\* queried only when the first lookup failed or returned nothing; rules 3
\* and 4 are both judged on the first item of the first non-empty successful
\* lookup, and both fail when no lookup yields a service.
C11_ServiceResolutionOrder ==
    /\ Len(ServiceCalls) <= 2
    /\ \A i \in 1..Len(ServiceCalls) :
           ServiceCalls[i].selector = SpecServiceSelector(i, SpecBareValue)
    /\ Len(ServiceCalls) = 2 => ~Yielded(ServiceCalls[1])
    /\ pc = "done" =>
           /\ appLabel # <<>> => Len(ServiceCalls) >= 1
           /\ (Len(ServiceCalls) = 1 /\ appLabel # <<>>) => Yielded(ServiceCalls[1])
           /\ WinningServiceCalls = {} =>
                  /\ service = Nil
                  /\ ~results[3].Passed
                  /\ ~results[4].Passed
           /\ WinningServiceCalls # {} =>
                  LET won == ServiceCalls[Len(ServiceCalls)].out.Items[1]
                  IN  /\ service = won
                      /\ results[3].Passed = SpecPortNamingPasses(won.Ports)
                      /\ results[4].Passed = SpecScrapeTLSPasses(won.Labels)

\* The first lookup returns nothing, the second two services of which only
\* the second would pass rule 3.
C11_Witness ==
    /\ pc = "done"
    /\ Len(ServiceCalls) = 2
    /\ ~ServiceCalls[1].out.err
    /\ Yielded(ServiceCalls[2])
    /\ Len(ServiceCalls[2].out.Items) = 2
    /\ ~SpecPortNamingPasses(ServiceCalls[2].out.Items[1].Ports)
    /\ SpecPortNamingPasses(ServiceCalls[2].out.Items[2].Ports)
    /\ ~results[3].Passed

----------------------------------------------------------------------------
(* Properties of the Validate* functions *)

PortNamesOf(svc) == [i \in 1..Len(svc.Ports) |-> svc.Ports[i].Name]

ReturnedFrom(fn) == pc = "returned" /\ vOut.fn = fn

\* The function returned from a call with a service.
ReturnedForService(fn) == ReturnedFrom(fn) /\ vIn # Nil

\* C7: ValidateServicePortNaming passes iff the service has at least one port
\* and every port has a non-empty name whose lower-cased part before the
\* first "-" is one of http, http2, https, tcp, tls, grpc, mongo, redis;
\* [http-api, grpc, ""] fails, [http-api, grpc, tcp-db] passes, [httpx-api]
\* fails.
C7_PortNamingIsStrict ==
    ReturnedForService("ValidateServicePortNaming") =>
        /\ vOut.ret = SpecPortNamingPasses(vIn.Ports)
        /\ PortNamesOf(vIn) = <<n_http_api, n_grpc, s_empty>> => ~vOut.ret
        /\ PortNamesOf(vIn) = <<n_http_api, n_grpc, n_tcp_db>> => vOut.ret
        /\ PortNamesOf(vIn) = <<n_httpx_api>> => ~vOut.ret

C7_Witness ==
    /\ ReturnedForService("ValidateServicePortNaming")
    /\ PortNamesOf(vIn) = <<n_http_api, n_grpc, s_empty>>
    /\ ~vOut.ret

\* C10: ValidateServiceHasScrapeTLS passes iff the service has the label key
\* scrape_tls with the value "true" exactly; "True", "1", "", any other
\* value, a missing key and a service without labels fail.
C10_ScrapeTLSExactlyTrue ==
    ReturnedForService("ValidateServiceHasScrapeTLS") =>
        /\ vOut.ret = SpecScrapeTLSPasses(vIn.Labels)
        /\ vIn.Labels.isNil => ~vOut.ret
        /\ "scrape_tls" \notin DOMAIN vIn.Labels.kv => ~vOut.ret
        /\ \A v \in {"True", "1", "", "false"} :
               vIn.Labels = Labels("scrape_tls" :> v) => ~vOut.ret
        /\ vIn.Labels = Labels("scrape_tls" :> "true") => vOut.ret

C10_Witness ==
    /\ ReturnedForService("ValidateServiceHasScrapeTLS")
    /\ vIn.Labels = Labels("scrape_tls" :> "True")
    /\ ~vOut.ret

----------------------------------------------------------------------------
(* Properties of the identifier cleaning *)

SpecSelectorsOf(v) == << SpecServiceSelector(1, v), SpecServiceSelector(2, v) >>

\* C12 as stated: every expression built from a bare value v by optionally
\* prefixing app= and optionally putting quote characters around the value
\* or around the whole expression is cleaned to v, and the selectors built
\* are app=v and argocd.argoproj.io/instance=v.
C12_EveryShapeCleansToValue ==
    ReturnedFrom("cleanLabel") =>
        /\ vOut.cleaned = vIn.v
        /\ vOut.selectors = SpecSelectorsOf(vIn.v)

\* C12: every expression built from a bare value v by optionally prefixing
\* app= and optionally putting quote characters around the value (after the
\* prefix) is cleaned to v, and for a non-empty expression the selectors
\* built are app=v and argocd.argoproj.io/instance=v; quote characters
\* around a whole app=v expression leave app=v.
C12_ValueShapesCleanToValue ==
    ReturnedFrom("cleanLabel") =>
        /\ (vIn.quoting # "whole" \/ ~vIn.prefixed) =>
               /\ vOut.cleaned = vIn.v
               /\ vIn.expr # <<>> => vOut.selectors = SpecSelectorsOf(vIn.v)
        /\ (vIn.quoting = "whole" /\ vIn.prefixed) =>
               vOut.cleaned = <<"a","p","p","=">> \o vIn.v

C12_Witness ==
    /\ ReturnedFrom("cleanLabel")
    /\ vIn.expr = <<"a","p","p","=","\"","a","p","p","\"">>
    /\ vOut.cleaned = <<"a","p","p">>
    /\ vOut.selectors[1] = <<"a","p","p","=","a","p","p">>

----------------------------------------------------------------------------
(* Properties of the reference scanner *)

IsSubstring(sub, s) ==
    \E i \in 1..(Len(s) + 1), j \in 0..Len(s) : SubSeq(s, i, j) = sub

RECURSIVE Flatten(_)
Flatten(ss) == IF ss = <<>> THEN <<>> ELSE Head(ss) \o Flatten(Tail(ss))

\* A citation {locator, matchedField, value} as the text the scanner returns.
SpecArrow == <<" ","U+2192"," ">>

CitationText(locator, matchedField, value) ==
    <<"E","n","d","p","o","i","n","t",":"," ">> \o locator \o SpecArrow
        \o (IF matchedField = "backend-url" THEN <<"B","a","c","k","e","n","d",":"," ">>
            ELSE <<"H","o","s","t",":"," ">>)
        \o value

IsUrlCitation(text) == IsSubstring(SpecArrow \o <<"B","a","c","k","e","n","d",":"," ">>, text)
IsHostCitation(text) == IsSubstring(SpecArrow \o <<"H","o","s","t",":"," ">>, text)

HasKeyOfKind(n, k, kind) == IsObj(n) /\ k \in DOMAIN n.obj /\ DOMAIN n.obj[k] = {kind}

\* The elements of the top-level endpoints sequence.
SpecRoutes(doc) ==
    IF HasKeyOfKind(doc, "endpoints", "arr") THEN doc.obj["endpoints"].arr ELSE <<>>

\* The elements of a route's backend sequence.
SpecBackends(route) ==
    IF HasKeyOfKind(route, "backend", "arr") THEN route.obj["backend"].arr ELSE <<>>

\* The locator of a route: its endpoint string, or unknown when the scanner
\* finds no endpoint text (key absent, value not a string, or empty).
SpecLocator(route) ==
    IF HasKeyOfKind(route, "endpoint", "str") /\ route.obj["endpoint"].str # <<>>
    THEN route.obj["endpoint"].str
    ELSE <<"u","n","k","n","o","w","n">>

SpecUrlCitations(route, backend, target) ==
    IF HasKeyOfKind(backend, "url_pattern", "str")
           /\ IsSubstring(target, backend.obj["url_pattern"].str)
    THEN << CitationText(SpecLocator(route), "backend-url", backend.obj["url_pattern"].str) >>
    ELSE <<>>

\* The strings a host value offers, in order.
SpecHostCandidates(backend) ==
    IF HasKeyOfKind(backend, "host", "str") THEN << backend.obj["host"].str >>
    ELSE IF HasKeyOfKind(backend, "host", "arr")
    THEN LET items == backend.obj["host"].arr
             IsText(n) == DOMAIN n = {"str"}
             texts == SelectSeq(items, IsText)
         IN  [i \in 1..Len(texts) |-> texts[i].str]
    ELSE <<>>

SpecHostCitations(route, backend, target) ==
    LET Matches(h) == IsSubstring(target, h)
        matching == SelectSeq(SpecHostCandidates(backend), Matches)
    IN  IF matching = <<>> THEN <<>>
        ELSE << CitationText(SpecLocator(route), "backend-host", matching[1]) >>

\* The citations of all (route, backend) pairs in traversal order, each pair
\* contributing what Of(route, backend, target) gives for it.
SpecTraverse(doc, target, Of(_, _, _)) ==
    LET routes == SpecRoutes(doc)
    IN  Flatten([i \in 1..Len(routes) |->
            LET backends == SpecBackends(routes[i])
            IN  Flatten([j \in 1..Len(backends) |-> Of(routes[i], backends[j], target)])])

SpecBothCitations(route, backend, target) ==
    SpecUrlCitations(route, backend, target) \o SpecHostCitations(route, backend, target)

Scanned == ReturnedFrom("findServiceReferences")

\* C13 as stated: called with the empty service name, findServiceReferences
\* returns no citations, whatever the document.
C13_EmptyTargetYieldsNothing ==
    (Scanned /\ vIn.serviceName = <<>>) => vOut.ret = <<>>

ExampleDocument ==
    Obj("endpoints" :> Arr(<< Obj("endpoint" :> Str(<<"/","a">>)
        @@ "backend" :> Arr(<< Obj("url_pattern" :> Str(u_svc_x_path)) >>)) >>))

\* C14: for a non-empty target, the backend-url citations returned are, pair
\* by pair, one citation with the route's locator and the whole url_pattern
\* for each backend mapping whose url_pattern is a string containing the
\* target, and none for any other backend; the example document yields
\* exactly the citation (/a, backend-url, http://svc-x/path).
C14_UrlPatternMatch ==
    (Scanned /\ vIn.serviceName # <<>>) =>
        /\ SelectSeq(vOut.ret, IsUrlCitation)
               = SpecTraverse(vIn.config, vIn.serviceName, SpecUrlCitations)
        /\ vIn.config = ExampleDocument =>
               vOut.ret = << CitationText(<<"/","a">>, "backend-url", u_svc_x_path) >>

C14_Witness ==
    /\ Scanned
    /\ vIn.config = ExampleDocument
    /\ vIn.serviceName = t_svc_x
    /\ Len(vOut.ret) = 1

\* The backend mappings of the document, route by route.
SpecBackendMappings(doc) ==
    LET One(route, backend, target) == IF IsObj(backend) THEN <<backend>> ELSE <<>>
    IN  SpecTraverse(doc, <<>>, One)

HostExampleDocument ==
    Obj("endpoints" :> Arr(<< Obj("endpoint" :> Str(<<"/","a">>)
        @@ "backend" :> Arr(<< Obj("host" :> Arr(<<Str(h_a_svc), Str(h_svc_x_helper)>>)) >>)) >>))

\* C15: the backend-host citations returned are, pair by pair, at most one
\* per backend mapping: for a host sequence the first string element that
\* contains the target (elements that are not strings are skipped), for a
\* single host string that string if it contains the target; the host
\* [a-svc, svc-x-helper] with target svc-x yields one citation, for
\* svc-x-helper.
C15_HostFirstMatchOnly ==
    Scanned =>
        /\ SelectSeq(vOut.ret, IsHostCitation)
               = SpecTraverse(vIn.config, vIn.serviceName, SpecHostCitations)
        /\ Len(SelectSeq(vOut.ret, IsHostCitation)) <= Len(SpecBackendMappings(vIn.config))
        /\ (vIn.config = HostExampleDocument /\ vIn.serviceName = t_svc_x) =>
               vOut.ret = << CitationText(<<"/","a">>, "backend-host", h_svc_x_helper) >>

\* One backend whose host sequence holds a number and then two strings that
\* both contain the target: one citation, for the first of the two.
C15_Witness ==
    /\ Scanned
    /\ vIn.serviceName = t_svc_x
    /\ vIn.config = Obj("endpoints" :> Arr(<< Obj("endpoint" :> Str(e_a)
           @@ "backend" :> Arr(<< Obj("url_pattern" :> Str(u_db)
               @@ "host" :> Arr(<<Num(7), Str(t_svc_x), Str(h_svc_x_helper)>>)) >>)) >>))
    /\ vOut.ret = << CitationText(e_a, "backend-host", t_svc_x) >>

\* The (route, backend, field) triples of the document that match the target.
SpecMatchingPairs(doc, target) ==
    LET routes == SpecRoutes(doc)
    IN  { <<i, j, f>> \in (1..Len(routes)) \X (1..(MaxBackends + 1)) \X {"url", "host"} :
            /\ j <= Len(SpecBackends(routes[i]))
            /\ IF f = "url"
               THEN SpecUrlCitations(routes[i], SpecBackends(routes[i])[j], target) # <<>>
               ELSE SpecHostCitations(routes[i], SpecBackends(routes[i])[j], target) # <<>> }

\* C16: the citations are returned in traversal order - routes in document
\* order, backends in document order within a route, url_pattern before
\* host within a backend - and none is dropped as a duplicate: the result
\* has one entry for each matching (backend, field) pair.
C16_TraversalOrderNoDedup ==
    Scanned =>
        /\ vOut.ret = SpecTraverse(vIn.config, vIn.serviceName, SpecBothCitations)
        /\ Len(vOut.ret) = Cardinality(SpecMatchingPairs(vIn.config, vIn.serviceName))

\* The same route twice, with a host-only backend and then a backend matching
\* in both fields: six citations, the last three repeating the first three.
C16_Witness ==
    /\ Scanned
    /\ vIn.serviceName = t_svc_x
    /\ Len(SpecRoutes(vIn.config)) = 2
    /\ vOut.ret = << CitationText(e_b, "backend-host", t_svc_x),
                     CitationText(e_b, "backend-url", u_svc_x_path),
                     CitationText(e_b, "backend-host", h_svc_x_helper),
                     CitationText(e_b, "backend-host", t_svc_x),
                     CitationText(e_b, "backend-url", u_svc_x_path),
                     CitationText(e_b, "backend-host", h_svc_x_helper) >>

\* The citations of one route alone.
SpecRouteCitations(route, target) ==
    LET backends == SpecBackends(route)
    IN  Flatten([j \in 1..Len(backends) |-> SpecBothCitations(route, backends[j], target)])

\* A route the scanner can read: a mapping whose backend is a sequence.
WellFormedRoute(route) == HasKeyOfKind(route, "backend", "arr")

\* The document without the i-th element of its endpoints sequence.
WithoutRoute(doc, i) ==
    LET routes == SpecRoutes(doc)
    IN  Obj("endpoints" :> Arr(SubSeq(routes, 1, i - 1) \o SubSeq(routes, i + 1, Len(routes))))

\* C17: for every document tree the scanner returns a citation list; a
\* document that is not a mapping or whose endpoints is not a sequence gives
\* the empty list; a route of the wrong shape changes nothing but its own
\* contribution (the result is that of the document without it); and the
\* citations of every well-formed route are all in the result, in order.
C17_ShapeTolerance ==
    Scanned =>
        /\ DOMAIN vOut.ret = 1..Len(vOut.ret)
        /\ ~HasKeyOfKind(vIn.config, "endpoints", "arr") => vOut.ret = <<>>
        /\ \A i \in 1..Len(SpecRoutes(vIn.config)) :
               LET route == SpecRoutes(vIn.config)[i]
               IN  /\ IsSubstring(SpecRouteCitations(route, vIn.serviceName), vOut.ret)
                   /\ ~WellFormedRoute(route) =>
                          vOut.ret = SpecTraverse(WithoutRoute(vIn.config, i),
                                                  vIn.serviceName, SpecBothCitations)

\* A route that is a string, followed by a well-formed route: the second
\* route is still cited.
C17_Witness ==
    /\ Scanned
    /\ vIn.serviceName = t_svc_x
    /\ Len(SpecRoutes(vIn.config)) = 2
    /\ IsStr(SpecRoutes(vIn.config)[1])
    /\ vOut.ret = << CitationText(e_a, "backend-url", u_svc_x_path) >>

----------------------------------------------------------------------------
(* Properties of KrakenDBackendServiceCheck *)

Checked == pc = "returned" /\ vOut.fn = "KrakenDBackendServiceCheck"

\* The config map entries of the successful lookup, if there was one.
Fetched == Len(calls) = 1 /\ ~calls[1].out.err
FetchedData == calls[1].out.Data

SpecIsJSONKey(key) == \E n \in 0..Len(key) : key = SubSeq(key, 1, n) \o <<".","j","s","o","n">>

SpecJSONKeys(data) == { key \in DOMAIN data : SpecIsJSONKey(key) }

SpecIsObjectText(text) == DOMAIN text = {"json"} /\ DOMAIN text.json = {"obj"}

SpecFailed == vOut.err # "nil" /\ vOut.result = NoResult

\* C18 as stated: the check returns an error and an empty result when the
\* client is missing, the lookup fails, there is neither a krakend.json key
\* nor a key ending in .json, or the chosen text is not a JSON object; and
\* whenever some key ending in .json holds a parseable document it does not
\* return 'no JSON configuration found'.
C18_DocumentFailuresAreErrors ==
    Checked =>
        /\ vIn.clientset = Nil => SpecFailed
        /\ (Len(calls) = 1 /\ calls[1].out.err) => SpecFailed
        /\ Fetched =>
               /\ SpecJSONKeys(FetchedData) = {} => SpecFailed
               /\ ~SpecIsObjectText(krakendConfig) => SpecFailed
               /\ (\E key \in SpecJSONKeys(FetchedData) : SpecIsObjectText(FetchedData[key]))
                      => vOut.err # "no JSON configuration found in ConfigMap"

\* C19: when the config map has the key krakend.json the text scanned is the
\* value of that key, whatever other keys exist; otherwise it is the value
\* of a key ending in .json, and when there is none no text is scanned at
\* all, whatever the other keys hold; the references reported are those of
\* the chosen document.
C19_DocumentSelection ==
    (Fetched /\ pc \in {"L51", "returned"}) =>
        /\ k_krakend_json \in DOMAIN FetchedData =>
               krakendConfig = FetchedData[k_krakend_json]
        /\ (k_krakend_json \notin DOMAIN FetchedData /\ SpecJSONKeys(FetchedData) # {}) =>
               \E key \in SpecJSONKeys(FetchedData) : krakendConfig = FetchedData[key]
        /\ (k_krakend_json \notin DOMAIN FetchedData /\ SpecJSONKeys(FetchedData) = {}) =>
               /\ krakendConfig = EmptyText
               /\ pc = "returned"
               /\ SpecFailed
        /\ (Checked /\ vOut.err = "nil" /\ SpecIsObjectText(krakendConfig)) =>
               Len(vOut.result.references)
                   = Len(SpecTraverse(krakendConfig.json, vIn.serviceName, SpecBothCitations))

\* krakend.json holds one document, a.json and config.yaml another: the
\* citation reported is that of krakend.json.
C19_Witness ==
    /\ Checked
    /\ Fetched
    /\ vIn.serviceName = t_svc_x
    /\ DOMAIN FetchedData = { k_krakend_json, <<"a",".","j","s","o","n">>,
                              <<"c","o","n","f","i","g",".","y","a","m","l">> }
    /\ FetchedData[k_krakend_json] = JSONText(DocumentA)
    /\ FetchedData[<<"a",".","j","s","o","n">>] = JSONText(DocumentB)
    /\ FetchedData[<<"c","o","n","f","i","g",".","y","a","m","l">>] = JSONText(DocumentB)
    /\ vOut.result.references = << <<1, CitationText(e_a, "backend-url", u_svc_x_path)>> >>

----------------------------------------------------------------------------
(* Properties of the compliance report *)

IsTextLine(line) == line # <<>>

\* The lines of the returned text that are not empty.
TextLines == SelectSeq(rendered, IsTextLine)

GlyphPairs == { [Success |-> "U+2705", Failure |-> "U+274C"],
                [Success |-> "[+]", Failure |-> "[!]"] }

C21_RenderWritesNothing == pc = "rendered" => stdout = <<>>

----------------------------------------------------------------------------
(* Properties of GetStatusSymbols *)

SpecAllowList == { <<"i","t","e","r","m",".","a","p","p">>,
                   <<"a","p","p","l","e","_","t","e","r","m","i","n","a","l">>,
                   <<"v","s","c","o","d","e">>, <<"h","y","p","e","r">>,
                   <<"a","l","a","c","r","i","t","t","y">>, <<"k","i","t","t","y">>,
                   <<"t","e","r","m","i","n","a","t","o","r">> }

\* The three conditions of the probe, any of which selects the Unicode pair.
SpecUnicodeTerminal(env) ==
    \/ \E name \in SpecAllowList : IsSubstring(name, ToLower(env.TERM_PROGRAM))
    \/ IsSubstring(<<"t","r","u","e","c","o","l","o","r">>, env.COLORTERM)
    \/ IsSubstring(<<"2","4","b","i","t">>, env.COLORTERM)
    \/ IsSubstring(<<"x","t","e","r","m","-","2","5","6","c","o","l","o","r">>, env.TERM)

\* C22: GetStatusSymbols returns the Unicode pair iff TERM_PROGRAM contains an
\* allow-listed name in any letter case, or COLORTERM contains truecolor or
\* 24bit, or TERM contains xterm-256color, and the ASCII pair [+] / [!]
\* otherwise; a second call in the same environment returns the same pair.
C22_ProbeDecision ==
    /\ pc \in {"returned", "repeated"} =>
           vOut.ret = IF SpecUnicodeTerminal(termEnv)
                      THEN [Success |-> "U+2705", Failure |-> "U+274C"]
                      ELSE [Success |-> "[+]", Failure |-> "[!]"]
    /\ pc = "repeated" => vOut = vPrev

\* Two calls with TERM_PROGRAM=VSCode and no other signal: the Unicode pair
\* both times, selected by the allow-list alone.
C22_Witness ==
    /\ pc = "repeated"
    /\ termEnv = [TERM_PROGRAM |-> <<"V","S","C","o","d","e">>, COLORTERM |-> <<>>,
                  TERM |-> <<>>]
    /\ vOut.ret.Success = "U+2705"
    /\ vPrev.ret.Failure = "U+274C"

\* The places the scanner may cite: <<route, field, value>> for every
\* url_pattern string and every host string (a string host, or a string
\* element of a host sequence) of a mapping in the backend sequence of a
\* mapping in the top-level endpoints sequence.
SpecCitableSites(doc) ==
    LET routes == SpecRoutes(doc)
    IN  UNION { UNION {
            LET backend == SpecBackends(routes[i])[j]
                hosts == SpecHostCandidates(backend)
            IN  (IF HasKeyOfKind(backend, "url_pattern", "str")
                 THEN { <<routes[i], "backend-url", backend.obj["url_pattern"].str>> }
                 ELSE {})
                \cup { <<routes[i], "backend-host", hosts[k]>> : k \in 1..Len(hosts) }
            : j \in 1..Len(SpecBackends(routes[i])) } : i \in 1..Len(routes) }

\* C23: every citation returned quotes a url_pattern or host string of a
\* backend mapping of a top-level route, with that route's locator; a string
\* holding the target anywhere else in the document yields no citation.
C23_CitationsComeFromBackends ==
    Scanned =>
        \A i \in 1..Len(vOut.ret) :
            \E site \in SpecCitableSites(vIn.config) :
                /\ IsObj(site[1])
                /\ vOut.ret[i] = CitationText(SpecLocator(site[1]), site[2], site[3])

\* A document naming the target in a top-level key, in top-level and route
\* extension fields, in other keys of a backend and in one url_pattern:
\* only the url_pattern is cited.
C23_Witness ==
    /\ Scanned
    /\ vIn.serviceName = t_svc_x
    /\ IsObj(vIn.config)
    /\ DOMAIN vIn.config.obj = {"name", "extra_config", "endpoints"}
    /\ vIn.config.obj["name"] = Str(t_svc_x)
    /\ vIn.config.obj["extra_config"].obj["host"] = Str(t_svc_x)
    /\ vOut.ret = << CitationText(e_a, "backend-url", u_svc_x_path) >>

\* The locator each returned citation should carry, in traversal order:
\* Locator(route) once per citation of the route.
SpecLocators(doc, target, Locator(_)) ==
    LET One(route, backend, t) ==
            LET cited == SpecBothCitations(route, backend, t)
            IN  [k \in 1..Len(cited) |-> Locator(route)]
    IN  SpecTraverse(doc, target, One)

HasLocator(text, locator) ==
    LET prefix == <<"E","n","d","p","o","i","n","t",":"," ">> \o locator \o SpecArrow
    IN  Len(text) >= Len(prefix) /\ SubSeq(text, 1, Len(prefix)) = prefix

SpecEndpointString(route) ==
    IF HasKeyOfKind(route, "endpoint", "str") THEN route.obj["endpoint"].str
    ELSE <<"u","n","k","n","o","w","n">>

\* C24 as stated: the locator of every citation is the route's endpoint value
\* whenever that value is a string, and unknown exactly when the endpoint key
\* is absent or its value is not a string.
C24_LocatorIsEndpointString ==
    Scanned =>
        LET locators == SpecLocators(vIn.config, vIn.serviceName, SpecEndpointString)
        IN  /\ Len(vOut.ret) = Len(locators)
            /\ \A i \in 1..Len(locators) : HasLocator(vOut.ret[i], locators[i])

\* C24: the locator of every citation is the route's endpoint value when that
\* value is a non-empty string, and unknown when the endpoint key is absent,
\* its value is not a string, or its value is the empty string.
C24_LocatorIsNonEmptyEndpoint ==
    Scanned =>
        LET locators == SpecLocators(vIn.config, vIn.serviceName, SpecLocator)
        IN  /\ Len(vOut.ret) = Len(locators)
            /\ \A i \in 1..Len(locators) : HasLocator(vOut.ret[i], locators[i])

\* A route whose endpoint is the empty string, cited with the locator unknown.
C24_Witness ==
    /\ Scanned
    /\ vIn.serviceName = t_svc_x
    /\ vIn.config = Obj("endpoints" :> Arr(<< Obj("endpoint" :> Str(<<>>)
           @@ "backend" :> Arr(<< Obj("url_pattern" :> Str(u_svc_x_path)) >>)) >>))
    /\ vOut.ret = << CitationText(<<"u","n","k","n","o","w","n">>, "backend-url",
                                  u_svc_x_path) >>

----------------------------------------------------------------------------
(* Properties of a repeated KrakenDBackendServiceCheck *)

\* C25: a second check of the same config map for the same service name
\* returns what the first returned: the same result text and the same error.
C25_SameOutcomeEveryTime == (Checked /\ vPrev # Nil) => vOut = vPrev

----------------------------------------------------------------------------
(* Properties of the pod panel *)

\* The entry is the record of a pod that a pod-information lookup with the
\* given selector returned.
SpecRecordReturnedFor(entry, selector) ==
    \E k \in 1..Len(calls) :
        /\ IsInfoCall(calls[k])
        /\ calls[k].selector = selector
        /\ \E j \in 1..Len(calls[k].out.Items) :
               entry = [text |-> "Name/Namespace/Status/Node/IP",
                        Name |-> calls[k].out.Items[j].Name]

\* C26: every numbered entry of the pod panel is the record of a pod returned
\* for the selector the panel names; an entry that is a message instead of a
\* record appears only when no candidate selector found a pod.
C26_PanelShowsPodsOfItsSelector ==
    pc = "resolved" =>
        \A i \in 1..Len(podInfo.entries) :
            \/ SpecRecordReturnedFor(podInfo.entries[i][2], podInfo.label)
            \/ /\ podNames = <<>>
               /\ "Name" \notin DOMAIN podInfo.entries[i][2]

----------------------------------------------------------------------------
(* Properties of the Validate* functions called without a service *)

\* C27: a call of ValidateServicePortNaming with no service (nil) ends by
\* returning false, whether or not the log file was opened.
C27_NilServiceReturnsFalse ==
    (vIn = Nil /\ pc # "call" /\ vOut.fn = "ValidateServicePortNaming") =>
        (pc = "returned" /\ vOut.ret = FALSE)

----------------------------------------------------------------------------
(* Properties of the port marks of Service Details *)

\* C28: a port is marked valid in Service Details iff a service consisting
\* of that single port passes the Service-Port-Naming rule.
C28_PortMarkAgreesWithRule ==
    ReturnedForService("GetServiceInfo") =>
        \A i \in 1..Len(vIn.Ports) :
            vOut.ret[i] = SpecPortNamingPasses(<< vIn.Ports[i] >>)

----------------------------------------------------------------------------
(* Properties of the two variants of findServiceReferences *)

\* The key occurs somewhere in the value n.
RECURSIVE SpecKeyOccurs(_, _)
SpecKeyOccurs(n, key) ==
    IF IsObj(n)
    THEN key \in DOMAIN n.obj \/ \E k \in DOMAIN n.obj : SpecKeyOccurs(n.obj[k], key)
    ELSE IF IsArr(n) THEN \E i \in 1..Len(n.arr) : SpecKeyOccurs(n.arr[i], key)
    ELSE FALSE

\* A document with the key endpoints at the top level only, whose backend
\* host values are all strings and whose routes all have a non-empty
\* endpoint string.
SpecPlainDocument(doc) ==
    /\ IsObj(doc)
    /\ \A k \in DOMAIN doc.obj : ~SpecKeyOccurs(doc.obj[k], "endpoints")
    /\ \A i \in 1..Len(SpecRoutes(doc)) :
           IsObj(SpecRoutes(doc)[i]) =>
               /\ HasKeyOfKind(SpecRoutes(doc)[i], "endpoint", "str")
               /\ SpecRoutes(doc)[i].obj["endpoint"].str # <<>>
    /\ \A j \in 1..Len(SpecBackendMappings(doc)) :
           "host" \in DOMAIN SpecBackendMappings(doc)[j].obj =>
               HasKeyOfKind(SpecBackendMappings(doc)[j], "host", "str")

\* C29: on a plain document the recursive variant returns the citation list
\* of the restricted variant, in the same order and with no citation added.
C29_VariantsAgreeOnPlainDocuments ==
    (pc = "compared" /\ SpecPlainDocument(vIn.config)) => vOut.ret = vPrev.ret

\* Two routes, one citation from the first and three from the two backends
\* of the second: the same four citations from either variant.
C29_Witness ==
    /\ pc = "compared"
    /\ SpecPlainDocument(vIn.config)
    /\ vIn.serviceName = t_svc_x
    /\ Len(SpecRoutes(vIn.config)) = 2
    /\ Len(vPrev.ret) = 4
    /\ vOut.ret = vPrev.ret

----------------------------------------------------------------------------
(* Properties of process shutdown *)

\* C30: whenever the UI loop has ended without error (the user quit), the
\* process eventually terminates.
C30_QuitEndsProcess == (pc.ui = "ended") ~> (vOut # Nil)

====
